---- MODULE Spec2Model ----
(***************************************************************************)
(* A model of elementpath's Pratt (TDOP) parser framework (tdop.py) and of *)
(* the XPath 1.0 grammar registered on it (xpath1_parser.py).              *)
(*                                                                         *)
(* Python strings are modelled as sequences of one-character strings; the *)
(* symbols that key the symbol table are written as TLA+ strings and      *)
(* SPELL gives the characters of each.                                    *)
(***************************************************************************)
EXTENDS Integers, Sequences, FiniteSets, TLC

VARIABLES
    symbol_table,   \* registry spec: cls.symbol_table of a parser class
    reg_last,       \* registry spec: the last registry call and its outcome
    reg_calls,      \* registry spec: number of registry calls made so far
    input,          \* parser spec: the argument of the pending parse call
    pc,             \* parser spec: "ready" before the call, then the call made
    source,         \* Parser.source
    tokens,         \* Parser.tokens: the matches the iterator still holds
    match,          \* Parser.match
    token,          \* Parser.token
    next_token,     \* Parser.next_token
    result,         \* what the call returned or raised
    ctx,            \* the XPathContext the root was selected on
    selected,       \* what root.select(context) yielded or raised
    fn_call,        \* the function or method call made on a token
    returned        \* what the call returned or raised

regvars == <<symbol_table, reg_last, reg_calls>>
parvars == <<input, pc, source, tokens, match, token, next_token, result>>
selvars == <<ctx, selected>>
funvars == <<fn_call, returned>>
vars == <<symbol_table, reg_last, reg_calls,
          input, pc, source, tokens, match, token, next_token, result,
          ctx, selected, fn_call, returned>>

-----------------------------------------------------------------------------
(* Characters and strings                                                  *)

Digits == {"0", "1", "2", "3", "4", "5", "6", "7", "8", "9"}
Letters == {"a", "b", "c", "d", "e", "f", "g", "h", "i", "j", "k", "l", "m",
            "n", "o", "p", "q", "r", "s", "t", "u", "v", "w", "x", "y", "z",
            "E"}
\* regex \s
Spaces == {" ", "\t", "\n", "\r", "\f"}
\* regex \w
IsWord(c) == c \in Letters \cup Digits \cup {"_"}

Contains(s, c) == \E i \in 1..Len(s) : s[i] = c

\* the characters of every symbol string used as a key of a symbol table
SPELL ==
    "(string)" :> <<"(", "s", "t", "r", "i", "n", "g", ")">> @@
    "(float)" :> <<"(", "f", "l", "o", "a", "t", ")">> @@
    "(decimal)" :> <<"(", "d", "e", "c", "i", "m", "a", "l", ")">> @@
    "(integer)" :> <<"(", "i", "n", "t", "e", "g", "e", "r", ")">> @@
    "(name)" :> <<"(", "n", "a", "m", "e", ")">> @@
    "(end)" :> <<"(", "e", "n", "d", ")">> @@
    "(invalid)" :> <<"(", "i", "n", "v", "a", "l", "i", "d", ")">> @@
    "(unknown)" :> <<"(", "u", "n", "k", "n", "o", "w", "n", ")">> @@
    "descendant-or-self" :> <<"d", "e", "s", "c", "e", "n", "d", "a", "n", "t", "-", "o", "r", "-", "s", "e", "l", "f">> @@
    "following-sibling" :> <<"f", "o", "l", "l", "o", "w", "i", "n", "g", "-", "s", "i", "b", "l", "i", "n", "g">> @@
    "preceding-sibling" :> <<"p", "r", "e", "c", "e", "d", "i", "n", "g", "-", "s", "i", "b", "l", "i", "n", "g">> @@
    "ancestor-or-self" :> <<"a", "n", "c", "e", "s", "t", "o", "r", "-", "o", "r", "-", "s", "e", "l", "f">> @@
    "descendant" :> <<"d", "e", "s", "c", "e", "n", "d", "a", "n", "t">> @@
    "attribute" :> <<"a", "t", "t", "r", "i", "b", "u", "t", "e">> @@
    "following" :> <<"f", "o", "l", "l", "o", "w", "i", "n", "g">> @@
    "namespace" :> <<"n", "a", "m", "e", "s", "p", "a", "c", "e">> @@
    "preceding" :> <<"p", "r", "e", "c", "e", "d", "i", "n", "g">> @@
    "ancestor" :> <<"a", "n", "c", "e", "s", "t", "o", "r">> @@
    "parent" :> <<"p", "a", "r", "e", "n", "t">> @@
    "child" :> <<"c", "h", "i", "l", "d">> @@
    "self" :> <<"s", "e", "l", "f">> @@
    "and" :> <<"a", "n", "d">> @@
    "mod" :> <<"m", "o", "d">> @@
    "div" :> <<"d", "i", "v">> @@
    "or" :> <<"o", "r">> @@
    ".." :> <<".", ".">> @@
    "//" :> <<"/", "/">> @@
    "!=" :> <<"!", "=">> @@
    "<=" :> <<"<", "=">> @@
    ">=" :> <<">", "=">> @@
    "(" :> <<"(">> @@
    ")" :> <<")">> @@
    "[" :> <<"[">> @@
    "]" :> <<"]">> @@
    ":" :> <<":">> @@
    "." :> <<".">> @@
    "@" :> <<"@">> @@
    "," :> <<",">> @@
    "/" :> <<"/">> @@
    "|" :> <<"|">> @@
    "*" :> <<"*">> @@
    "-" :> <<"-">> @@
    "=" :> <<"=">> @@
    "+" :> <<"+">> @@
    "<" :> <<"<">> @@
    ">" :> <<">">> @@
    "$" :> <<"$">> @@
    "::" :> <<":", ":">> @@
    "node" :> <<"n", "o", "d", "e">> @@
    "text" :> <<"t", "e", "x", "t">> @@
    "comment" :> <<"c", "o", "m", "m", "e", "n", "t">> @@
    "processing-instruction" :> <<"p", "r", "o", "c", "e", "s", "s", "i", "n", "g", "-", "i", "n", "s", "t", "r", "u", "c", "t", "i", "o", "n">> @@
    "last" :> <<"l", "a", "s", "t">> @@
    "position" :> <<"p", "o", "s", "i", "t", "i", "o", "n">> @@
    "count" :> <<"c", "o", "u", "n", "t">> @@
    "id" :> <<"i", "d">> @@
    "name" :> <<"n", "a", "m", "e">> @@
    "local-name" :> <<"l", "o", "c", "a", "l", "-", "n", "a", "m", "e">> @@
    "namespace-uri" :> <<"n", "a", "m", "e", "s", "p", "a", "c", "e", "-", "u", "r", "i">> @@
    "string" :> <<"s", "t", "r", "i", "n", "g">> @@
    "concat" :> <<"c", "o", "n", "c", "a", "t">> @@
    "starts-with" :> <<"s", "t", "a", "r", "t", "s", "-", "w", "i", "t", "h">> @@
    "contains" :> <<"c", "o", "n", "t", "a", "i", "n", "s">> @@
    "substring-before" :> <<"s", "u", "b", "s", "t", "r", "i", "n", "g", "-", "b", "e", "f", "o", "r", "e">> @@
    "substring-after" :> <<"s", "u", "b", "s", "t", "r", "i", "n", "g", "-", "a", "f", "t", "e", "r">> @@
    "substring" :> <<"s", "u", "b", "s", "t", "r", "i", "n", "g">> @@
    "string-length" :> <<"s", "t", "r", "i", "n", "g", "-", "l", "e", "n", "g", "t", "h">> @@
    "normalize-space" :> <<"n", "o", "r", "m", "a", "l", "i", "z", "e", "-", "s", "p", "a", "c", "e">> @@
    "translate" :> <<"t", "r", "a", "n", "s", "l", "a", "t", "e">> @@
    "boolean" :> <<"b", "o", "o", "l", "e", "a", "n">> @@
    "not" :> <<"n", "o", "t">> @@
    "true" :> <<"t", "r", "u", "e">> @@
    "false" :> <<"f", "a", "l", "s", "e">> @@
    "lang" :> <<"l", "a", "n", "g">> @@
    "number" :> <<"n", "u", "m", "b", "e", "r">> @@
    "sum" :> <<"s", "u", "m">> @@
    "floor" :> <<"f", "l", "o", "o", "r">> @@
    "ceiling" :> <<"c", "e", "i", "l", "i", "n", "g">> @@
    "round" :> <<"r", "o", "u", "n", "d">> @@
    "{" :> <<"{">> @@
    "}" :> <<"}">> @@
    \* symbols that only the registry specification offers to register
    "zz" :> <<"z", "z">> @@
    "x y" :> <<"x", " ", "y">> @@
    "p q" :> <<"p", " ", "q">> @@
    "x\ty" :> <<"x", "\t", "y">> @@
    "p\nq" :> <<"p", "\n", "q">> @@
    "+ " :> <<"+", " ">>

SPECIAL_SYMBOLS == {"(string)", "(float)", "(decimal)", "(integer)",
                    "(name)", "(end)", "(invalid)", "(unknown)"}

-----------------------------------------------------------------------------
(* Symbol registry (tdop.py, Parser.register and friends)                  *)

\* A callable attribute of a token class: which function it is and the
\* values its closure captured (bp; nargs as lo..hi, lo = -1 for None).
Fn(f, bp, lo, hi) == [f |-> f, bp |-> bp, lo |-> lo, hi |-> hi]
\* A pattern attribute: None, or the regex fragment function()/axis() build.
Pat(kind, name) == [kind |-> kind, name |-> name]

KindAttrs == {"symbol", "lbp", "rbp", "pattern", "label",
              "nud", "led", "evaluate", "select", "bp"}

\* callable(value): the values passed under these keys are functions, the
\* values passed under every other key are numbers, strings or patterns.
IsCallable(key) == key \in {"nud", "led", "evaluate", "select"}

\* The class attributes of Token, inherited by every token class.
TokenDefaults ==
    [symbol |-> "", lbp |-> 0, rbp |-> 0, pattern |-> Pat("none", ""),
     label |-> "symbol",
     nud |-> Fn("Token.nud", 0, 0, 0), led |-> Fn("Token.led", 0, 0, 0),
     evaluate |-> Fn("Token.evaluate", 0, 0, 0),
     select |-> Fn("Token.select", 0, 0, 0),
     bp |-> 0]

\* A token class: its attributes, and the names set in its own __dict__.
NewClass(symbol, kwargs) ==
    LET Get(a) == IF a \in DOMAIN kwargs THEN kwargs[a] ELSE TokenDefaults[a]
    IN  [symbol |-> symbol, lbp |-> Get("lbp"), rbp |-> Get("rbp"),
         pattern |-> Get("pattern"), label |-> Get("label"),
         nud |-> Get("nud"), led |-> Get("led"),
         evaluate |-> Get("evaluate"), select |-> Get("select"),
         bp |-> Get("bp"),
         own |-> (DOMAIN kwargs) \cup {"symbol"}]

\* the update branch of register: for key, value in kwargs.items()
UpdateClassLower(cls, kwargs) ==
    LET Set(a) == IF a \in DOMAIN kwargs THEN kwargs[a] ELSE cls[a]
    IN  [cls EXCEPT !.lbp = Set("lbp"), !.rbp = Set("rbp"),
                    !.nud = Set("nud"), !.led = Set("led"),
                    !.evaluate = Set("evaluate"), !.select = Set("select"),
                    !.own = @ \cup {k \in DOMAIN kwargs :
                                      k \in {"lbp", "rbp"} \/ IsCallable(k)}]

UpdateClass(cls, kwargs) ==
    LET Set(a) == IF a \in DOMAIN kwargs /\ IsCallable(a) THEN kwargs[a] ELSE cls[a]
    IN  [cls EXCEPT
            !.lbp = IF "lbp" \in DOMAIN kwargs /\ kwargs["lbp"] > cls.lbp
                    THEN kwargs["lbp"] ELSE @,
            !.rbp = IF "rbp" \in DOMAIN kwargs /\ kwargs["rbp"] > cls.rbp
                    THEN kwargs["rbp"] ELSE @,
            !.nud = Set("nud"), !.led = Set("led"),
            !.evaluate = Set("evaluate"), !.select = Set("select"),
            !.own = @ \cup {k \in DOMAIN kwargs :
                              \/ k = "lbp" /\ kwargs[k] > cls.lbp
                              \/ k = "rbp" /\ kwargs[k] > cls.rbp
                              \/ IsCallable(k)}]

Put(table, symbol, cls) == (symbol :> cls) @@ table

Drop(table, symbol) == [s \in (DOMAIN table) \ {symbol} |-> table[s]]

RegOut(table, err) == [table |-> table, err |-> err]

\* `' ' in symbol`
HasBlank(symbol) == Contains(SPELL[symbol], " ")

RegisterNoAlphabet(table, alphabet, symbol, kwargs) ==
    IF HasBlank(symbol) THEN RegOut(table, "ValueError")
    ELSE IF symbol \in DOMAIN table
        THEN RegOut(Put(table, symbol, UpdateClass(table[symbol], kwargs)), "")
    ELSE RegOut(Put(table, symbol, NewClass(symbol, kwargs)), "")

\* Parser.register(symbol, **kwargs), symbol a string: the table after the
\* call and the exception raised ("" when it returns the token class).
Register(table, alphabet, symbol, kwargs) ==
    IF HasBlank(symbol) THEN RegOut(table, "ValueError")
    ELSE IF symbol \in DOMAIN table
        THEN RegOut(Put(table, symbol, UpdateClass(table[symbol], kwargs)), "")
    ELSE IF symbol \notin alphabet THEN RegOut(table, "NameError")
    ELSE RegOut(Put(table, symbol, NewClass(symbol, kwargs)), "")

\* str.strip() on a symbol, for the symbols SPELL knows
RECURSIVE LStrip(_)
LStrip(s) == IF s # <<>> /\ Head(s) \in Spaces THEN LStrip(Tail(s)) ELSE s
RECURSIVE RStrip(_)
RStrip(s) ==
    IF s # <<>> /\ s[Len(s)] \in Spaces THEN RStrip(SubSeq(s, 1, Len(s) - 1)) ELSE s
StripSymbol(symbol) ==
    LET t == LStrip(RStrip(SPELL[symbol]))
    IN  IF \E k \in DOMAIN SPELL : SPELL[k] = t
        THEN CHOOSE k \in DOMAIN SPELL : SPELL[k] = t
        ELSE symbol

\* Parser.unregister(symbol)
Unregister(table, symbol) ==
    IF StripSymbol(symbol) \in DOMAIN table
    THEN RegOut(Drop(table, StripSymbol(symbol)), "")
    ELSE RegOut(table, "KeyError")

\* Parser.duplicate(symbol, new_symbol, **kwargs)
Duplicate(table, alphabet, symbol, new_symbol, kwargs) ==
    IF symbol \notin DOMAIN table THEN RegOut(table, "KeyError")
    ELSE
      LET token_class == table[symbol]
          reg == Register(table, alphabet, new_symbol, kwargs)
      IN  IF reg.err # "" THEN reg
          ELSE
            LET new == reg.table[new_symbol]
                copied == {k \in token_class.own :
                             k \notin DOMAIN kwargs /\ k \notin {"symbol", "pattern"}}
                Copy(a) == IF a \in copied THEN token_class[a] ELSE new[a]
                cls == [new EXCEPT !.lbp = Copy("lbp"), !.rbp = Copy("rbp"),
                                   !.label = Copy("label"), !.bp = Copy("bp"),
                                   !.nud = Copy("nud"), !.led = Copy("led"),
                                   !.evaluate = Copy("evaluate"),
                                   !.select = Copy("select"),
                                   !.own = @ \cup copied]
            IN  RegOut(Put(reg.table, new_symbol, cls), "")

-----------------------------------------------------------------------------
(* The XPath 1.0 grammar: the registrations xpath1_parser.py makes when it *)
(* is loaded, in the order of the file.                                    *)

XPathSymbols == (DOMAIN SPELL) \ {"zz", "x y", "p q", "x\ty", "p\nq", "+ "}

\* one registration on the XPath1Parser class
Reg(table, symbol, kwargs) == Register(table, XPathSymbols, symbol, kwargs).table

\* setattr(token_class, func.__name__, func), the bind() of Parser.method
SetAttr(table, symbol, attr, fn) ==
    IF symbol \notin DOMAIN table THEN table
    ELSE Put(table, symbol,
             [table[symbol] EXCEPT ![attr] = fn, !.own = @ \cup {attr}])

Literal(table, symbol) ==
    Reg(table, symbol, [label |-> "literal", lbp |-> 0,
                        evaluate |-> Fn("literal.evaluate", 0, 0, 0),
                        nud |-> Fn("literal.nud", 0, 0, 0)])

Nullary(table, symbol) ==
    Reg(table, symbol, [label |-> "operator", lbp |-> 0,
                        nud |-> Fn("nullary.nud", 0, 0, 0)])

Prefix(table, symbol, bp) ==
    Reg(table, symbol, [label |-> "prefix operator", lbp |-> bp, rbp |-> bp,
                        nud |-> Fn("prefix.nud", bp, 0, 0)])

Infix(table, symbol, bp) ==
    Reg(table, symbol, [label |-> "operator", lbp |-> bp, rbp |-> bp,
                        led |-> Fn("infix.led", bp, 0, 0)])

\* @method(symbol, bp) def attr(...): register, then bind the function
Method(table, symbol, bp, attr, fn) ==
    SetAttr(Reg(table, symbol, [label |-> "operator", lbp |-> bp, rbp |-> bp]),
            symbol, attr, fn)

Axis(table, symbol) ==
    Reg(table, symbol, [pattern |-> Pat("axis", symbol), label |-> "axis",
                        lbp |-> 80, rbp |-> 80,
                        nud |-> Fn("axis.nud", 80, 0, 0)])

\* nargs is lo..hi; lo = hi = -1 stands for nargs=None
Function(table, symbol, lo, hi, label) ==
    Reg(table, symbol, [pattern |-> Pat("function", symbol), label |-> label,
                        lbp |-> 90, rbp |-> 90,
                        nud |-> Fn("function.nud", 90, lo, hi)])

Registration(table, call) ==
    CASE call[1] = "register" -> Reg(table, call[2], call[3])
      [] call[1] = "literal" -> Literal(table, call[2])
      [] call[1] = "nullary" -> Nullary(table, call[2])
      [] call[1] = "prefix" -> Prefix(table, call[2], call[3])
      [] call[1] = "infix" -> Infix(table, call[2], call[3])
      [] call[1] = "method" ->
            Method(table, call[2], call[3], call[4], Fn(call[5], call[3], 0, 0))
      [] call[1] = "axis" -> Axis(table, call[2])
      [] call[1] = "function" -> Function(table, call[2], call[3], call[4], call[5])

RECURSIVE RegisterAll(_, _)
RegisterAll(table, calls) ==
    IF calls = <<>> THEN table
    ELSE LET next == Registration(table, Head(calls))
         IN  \* the test makes TLC compute `next` before it goes on
             IF DOMAIN next = {} THEN RegisterAll(next, Tail(calls))
             ELSE RegisterAll(next, Tail(calls))

NoKwargs == <<>>

RegistrationsNames == <<
    <<"register", ",", NoKwargs>>,
    <<"register", ")", [bp |-> 100]>>,
    <<"register", "]", NoKwargs>>,
    <<"register", "::", NoKwargs>>,
    <<"register", "}", NoKwargs>>,
    <<"literal", "(string)">>, <<"literal", "(float)">>,
    <<"literal", "(decimal)">>, <<"literal", "(integer)">>,
    <<"literal", "(invalid)">>, <<"literal", "(unknown)">>,
    <<"register", "(name)", [bp |-> 10, label |-> "literal"]>>,
    <<"method", "(name)", 0, "nud", "name.nud">>,
    <<"method", "(name)", 0, "evaluate", "name.evaluate">>,
    <<"method", "(name)", 0, "select", "name.select">>,
    <<"method", ":", 95, "led", "colon.led">>,
    <<"method", ":", 0, "evaluate", "colon.evaluate">>,
    <<"method", ":", 0, "select", "colon.select">>,
    <<"method", "{", 95, "nud", "brace.nud">>,
    <<"method", "{", 0, "evaluate", "brace.evaluate">>,
    <<"method", "{", 0, "select", "brace.select">>,
    <<"method", "$", 90, "nud", "variable.nud">>,
    <<"method", "$", 0, "evaluate", "variable.evaluate">> >>

TableNames == RegisterAll([s \in {} |-> TokenDefaults], RegistrationsNames)

RegistrationsOperators == <<
    <<"nullary", "*">>, <<"method", "*", 0, "select", "star.select">>,
    <<"nullary", ".">>, <<"method", ".", 0, "select", "self.select">>,
    <<"nullary", "..">>, <<"method", "..", 0, "select", "parent.select">>,
    <<"infix", "or", 20>>, <<"method", "or", 0, "evaluate", "or.evaluate">>,
    <<"infix", "and", 25>>, <<"method", "and", 0, "evaluate", "and.evaluate">>,
    <<"method", ">=", 30, "led", "comparison.led">>,
    <<"method", "<=", 30, "led", "comparison.led">>,
    <<"method", ">", 30, "led", "comparison.led">>,
    <<"method", "<", 30, "led", "comparison.led">>,
    <<"method", "!=", 30, "led", "comparison.led">>,
    <<"method", "=", 30, "led", "comparison.led">>,
    <<"method", ">=", 0, "evaluate", "comparison.evaluate">>,
    <<"method", "<=", 0, "evaluate", "comparison.evaluate">>,
    <<"method", ">", 0, "evaluate", "comparison.evaluate">>,
    <<"method", "<", 0, "evaluate", "comparison.evaluate">>,
    <<"method", "!=", 0, "evaluate", "comparison.evaluate">>,
    <<"method", "=", 0, "evaluate", "comparison.evaluate">>,
    <<"prefix", "+", 40>>,
    <<"prefix", "-", 70>>,
    <<"infix", "+", 40>>, <<"method", "+", 0, "evaluate", "plus.evaluate">>,
    <<"infix", "-", 40>>, <<"method", "-", 0, "evaluate", "minus.evaluate">>,
    <<"infix", "*", 45>>, <<"method", "*", 0, "evaluate", "times.evaluate">>,
    <<"infix", "div", 45>>, <<"method", "div", 0, "evaluate", "div.evaluate">>,
    <<"infix", "mod", 45>>, <<"method", "mod", 0, "evaluate", "mod.evaluate">> >>

TableOperators == RegisterAll(TableNames, RegistrationsOperators)

RegistrationsPaths == <<
    <<"method", "|", 50, "led", "union.led">>,
    <<"method", "|", 0, "select", "union.select">>,
    <<"method", "//", 75, "nud", "descendant.nud">>,
    <<"method", "/", 75, "nud", "root.nud">>,
    <<"method", "/", 0, "led", "path.led">>,
    <<"method", "//", 0, "led", "path.led">>,
    <<"method", "/", 0, "select", "path.select">>,
    <<"method", "//", 0, "select", "descendant.select">>,
    <<"method", "[", 80, "led", "predicate.led">>,
    <<"method", "[", 0, "select", "predicate.select">>,
    <<"method", "(", 100, "nud", "paren.nud">>,
    <<"method", "(", 0, "evaluate", "paren.evaluate">>,
    <<"method", "(", 0, "select", "paren.select">>,
    <<"method", "@", 80, "nud", "attribute.nud">>,
    <<"axis", "attribute">>,
    <<"method", "attribute", 0, "select", "attribute.select">>,
    <<"method", "@", 0, "select", "attribute.select">> >>

TablePaths == RegisterAll(TableOperators, RegistrationsPaths)

RegistrationsAxes == <<
    <<"axis", "namespace">>, <<"method", "namespace", 0, "select", "namespace::.select">>,
    <<"axis", "self">>, <<"method", "self", 0, "select", "self::.select">>,
    <<"axis", "child">>, <<"method", "child", 0, "select", "child::.select">>,
    <<"axis", "parent">>, <<"method", "parent", 0, "select", "parent::.select">>,
    <<"axis", "following-sibling">>, <<"method", "following-sibling", 0, "select", "following-sibling::.select">>,
    <<"axis", "preceding-sibling">>, <<"method", "preceding-sibling", 0, "select", "preceding-sibling::.select">>,
    <<"axis", "ancestor">>, <<"method", "ancestor", 0, "select", "ancestor::.select">>,
    <<"axis", "ancestor-or-self">>, <<"method", "ancestor-or-self", 0, "select", "ancestor-or-self::.select">>,
    <<"axis", "descendant">>, <<"method", "descendant", 0, "select", "descendant::.select">>,
    <<"axis", "descendant-or-self">>, <<"method", "descendant-or-self", 0, "select", "descendant-or-self::.select">>,
    <<"axis", "following">>, <<"method", "following", 0, "select", "following::.select">>,
    <<"axis", "preceding">>, <<"method", "preceding", 0, "select", "preceding::.select">> >>

TableAxes == RegisterAll(TablePaths, RegistrationsAxes)

RegistrationsKindTests == <<
    <<"function", "node", 0, 0, "kind test">>,
    <<"method", "node", 0, "select", "node().select">>,
    <<"function", "processing-instruction", 0, 1, "kind test">>,
    <<"method", "processing-instruction", 0, "select", "processing-instruction().select">>,
    <<"function", "comment", 0, 0, "kind test">>,
    <<"method", "comment", 0, "select", "comment().select">>,
    <<"function", "text", 0, 0, "kind test">>,
    <<"method", "text", 0, "select", "text().select">>,
    <<"function", "last", 0, 0, "function">>,
    <<"method", "last", 0, "evaluate", "last().evaluate">>,
    <<"function", "position", 0, 0, "function">>,
    <<"method", "position", 0, "evaluate", "position().evaluate">>,
    <<"function", "count", 1, 1, "function">>,
    <<"method", "count", 0, "evaluate", "count().evaluate">>,
    <<"function", "id", 1, 1, "function">>,
    <<"method", "id", 0, "select", "id().select">>,
    <<"function", "name", 0, 1, "function">>,
    <<"method", "name", 0, "evaluate", "name().evaluate">>,
    <<"function", "local-name", 0, 1, "function">>,
    <<"method", "local-name", 0, "evaluate", "local-name().evaluate">>,
    <<"function", "namespace-uri", 0, 1, "function">>,
    <<"method", "namespace-uri", 0, "evaluate", "namespace-uri().evaluate">> >>

TableKindTests == RegisterAll(TableAxes, RegistrationsKindTests)

RegistrationsStrings == <<
    <<"function", "string", 0, 1, "function">>,
    <<"method", "string", 0, "evaluate", "string().evaluate">>,
    <<"function", "contains", 2, 2, "function">>,
    <<"method", "contains", 0, "evaluate", "contains().evaluate">>,
    <<"function", "concat", -1, -1, "function">>,
    <<"method", "concat", 0, "evaluate", "concat().evaluate">>,
    <<"function", "string-length", 0, 1, "function">>,
    <<"method", "string-length", 0, "evaluate", "string-length().evaluate">>,
    <<"function", "normalize-space", 0, 1, "function">>,
    <<"method", "normalize-space", 0, "evaluate", "normalize-space().evaluate">>,
    <<"function", "starts-with", 2, 2, "function">>,
    <<"method", "starts-with", 0, "evaluate", "starts-with().evaluate">>,
    <<"function", "translate", 3, 3, "function">>,
    <<"method", "translate", 0, "evaluate", "translate().evaluate">>,
    <<"function", "substring", 2, 3, "function">>,
    <<"method", "substring", 0, "evaluate", "substring().evaluate">>,
    <<"function", "substring-before", 2, 2, "function">>,
    <<"method", "substring-before", 0, "evaluate", "substring-before().evaluate">>,
    <<"function", "substring-after", 2, 2, "function">>,
    <<"method", "substring-after", 0, "evaluate", "substring-after().evaluate">> >>

TableStrings == RegisterAll(TableKindTests, RegistrationsStrings)

RegistrationsFunctions == <<
    <<"function", "boolean", 1, 1, "function">>,
    <<"method", "boolean", 0, "evaluate", "boolean().evaluate">>,
    <<"function", "not", 1, 1, "function">>,
    <<"method", "not", 0, "evaluate", "not().evaluate">>,
    <<"function", "true", 0, 0, "function">>,
    <<"method", "true", 0, "evaluate", "true().evaluate">>,
    <<"function", "false", 0, 0, "function">>,
    <<"method", "false", 0, "evaluate", "false().evaluate">>,
    <<"function", "lang", 1, 1, "function">>,
    <<"method", "lang", 0, "evaluate", "lang().evaluate">>,
    <<"function", "number", 0, 1, "function">>,
    <<"method", "number", 0, "evaluate", "number().evaluate">>,
    <<"function", "sum", 1, 2, "function">>,
    <<"method", "sum", 0, "evaluate", "sum().evaluate">>,
    <<"function", "ceiling", 1, 1, "function">>,
    <<"method", "ceiling", 0, "evaluate", "ceiling().evaluate">>,
    <<"function", "floor", 1, 1, "function">>,
    <<"method", "floor", 0, "evaluate", "floor().evaluate">>,
    <<"function", "round", 1, 1, "function">>,
    <<"method", "round", 0, "evaluate", "round().evaluate">>,
    <<"register", "(end)", NoKwargs>> >>

\* XPath1Parser.symbol_table once the module is loaded
XPathTable == RegisterAll(TableStrings, RegistrationsFunctions)

-----------------------------------------------------------------------------
(* The tokenizer (tdop.py, Parser.create_tokenizer) and the regular        *)
(* expression it compiles.  Positions are 1-based indexes into the source; *)
(* the spans of the matches are Python's 0-based (start, end).             *)

At(src, i) == IF i \in 1..Len(src) THEN src[i] ELSE ""

\* the first position from i on whose character is not in the class
RunEnd(src, i, class) ==
    CHOOSE j \in i..(Len(src) + 1) :
        /\ At(src, j) \notin class
        /\ \A k \in i..(j - 1) : src[k] \in class

StartsWithAt(src, i, word) ==
    /\ i + Len(word) - 1 <= Len(src)
    /\ \A k \in 1..Len(word) : src[i + k - 1] = word[k]

\* XPath1Parser.name_pattern: [^\d\W][\w.\-...]*
NameStartChars == Letters \cup {"_"}
NameChars == Letters \cup Digits \cup {"_", ".", "-"}
\* name_pattern.match(symbol) is not None
IsNameLike(symbol) == At(SPELL[symbol], 1) \in NameStartChars

\* regex \b at position i (between the characters i-1 and i)
Boundary(src, i) == IsWord(At(src, i - 1)) # IsWord(At(src, i))

\* (?:\d+|\.\d+)(?:\.\d*)?(?:[Ee][+-]?\d+)? : the end of the match, 0 if none
NumberEnd(src, i) ==
    LET j1 == IF At(src, i) \in Digits THEN RunEnd(src, i, Digits)
              ELSE IF At(src, i) = "." /\ At(src, i + 1) \in Digits
                   THEN RunEnd(src, i + 1, Digits)
              ELSE 0
        j2 == IF At(src, j1) = "." THEN RunEnd(src, j1 + 1, Digits) ELSE j1
        k  == IF At(src, j2 + 1) \in {"+", "-"} THEN j2 + 2 ELSE j2 + 1
        j3 == IF At(src, j2) \in {"e", "E"} /\ At(src, k) \in Digits
              THEN RunEnd(src, k, Digits) ELSE j2
    IN  IF j1 = 0 THEN 0 ELSE j3

\* '(?:[^']|'')*' from the opening quote before p: the end of the match, 0 if
\* none.  The star takes a doubled quote as one item; when the source ends
\* before a closing quote, backtracking closes the literal at the first quote
\* of the last doubled quote.
RECURSIVE QuotedEnd(_, _, _, _)
QuotedEnd(src, p, quote, last_pair) ==
    IF p > Len(src) THEN (IF last_pair = 0 THEN 0 ELSE last_pair + 1)
    ELSE IF src[p] # quote THEN QuotedEnd(src, p + 1, quote, last_pair)
    ELSE IF At(src, p + 1) = quote THEN QuotedEnd(src, p + 2, quote, p)
    ELSE p + 1

\* XPath1Parser.literals_pattern
LiteralEnd(src, i) ==
    IF At(src, i) \in {"'", "\""} THEN QuotedEnd(src, i + 1, src[i], 0)
    ELSE NumberEnd(src, i)

\* \s* from j: every position it can stop at
WsStops(src, j) ==
    {k \in j..(Len(src) + 1) : \A m \in j..(k - 1) : src[m] \in Spaces}

\* \(\:.*\:\) from k: every position it can stop at
CommentStops(src, k) ==
    IF At(src, k) = "(" /\ At(src, k + 1) = ":"
    THEN {m + 2 : m \in {n \in (k + 2)..(Len(src) - 1) :
                           /\ src[n] = ":" /\ src[n + 1] = ")"
                           /\ \A x \in (k + 2)..(n - 1) : src[x] # "\n"}}
    ELSE {}

\* (?=\s*\(|\s*\(\:.*\:\)\() of XPath1Parser.function
FunctionAhead(src, j) ==
    \E k \in WsStops(src, j) :
        \/ At(src, k) = "("
        \/ \E e \in CommentStops(src, k) : At(src, e) = "("

\* (?=\s*\:\:|\s*\(\:.*\:\)\s*\:\:) of XPath1Parser.axis
AxisAhead(src, j) ==
    \E k \in WsStops(src, j) :
        \/ At(src, k) = ":" /\ At(src, k + 1) = ":"
        \/ \E e \in CommentStops(src, k) : \E k2 \in WsStops(src, e) :
              At(src, k2) = ":" /\ At(src, k2 + 1) = ":"

\* Parser.create_tokenizer: the symbols of the table by the kind of pattern
\* each gets in the symbols alternative
CreateTokenizer(table) ==
    LET plain == {s \in (DOMAIN table) \ SPECIAL_SYMBOLS : table[s].pattern.kind = "none"}
    IN  [custom  |-> {s \in (DOMAIN table) \ SPECIAL_SYMBOLS : table[s].pattern.kind # "none"},
         names   |-> {s \in plain : IsNameLike(s)},
         chars   |-> {s \in plain : ~IsNameLike(s) /\ Len(SPELL[s]) = 1},
         strings |-> {s \in plain : ~IsNameLike(s) /\ Len(SPELL[s]) # 1},
         kind    |-> [s \in DOMAIN table |-> table[s].pattern.kind]]

Longest(symbols) ==
    CHOOSE s \in symbols : \A t \in symbols : Len(SPELL[t]) <= Len(SPELL[s])

\* the symbols alternative at position i: the symbol matched, "" if none.
\* The alternatives are tried in the order string patterns (longest first),
\* character class, \b(?:names)\b(?![\-\.]) (longest first), custom patterns.
SymbolAt(tokenizer, src, i) ==
    LET strings == {s \in tokenizer.strings : StartsWithAt(src, i, SPELL[s])}
        chars   == {s \in tokenizer.chars : StartsWithAt(src, i, SPELL[s])}
        names   == {s \in tokenizer.names :
                      /\ StartsWithAt(src, i, SPELL[s])
                      /\ Boundary(src, i)
                      /\ Boundary(src, i + Len(SPELL[s]))
                      /\ At(src, i + Len(SPELL[s])) \notin {"-", "."}}
        custom  == {s \in tokenizer.custom :
                      /\ StartsWithAt(src, i, SPELL[s])
                      /\ Boundary(src, i)
                      /\ IF tokenizer.kind[s] = "function"
                         THEN FunctionAhead(src, i + Len(SPELL[s]))
                         ELSE AxisAhead(src, i + Len(SPELL[s]))}
    IN  IF strings # {} THEN Longest(strings)
        ELSE IF chars # {} THEN Longest(chars)
        ELSE IF names # {} THEN Longest(names)
        ELSE IF custom # {} THEN Longest(custom)
        ELSE ""

\* a match object: the group that took part (literal, symbol, name, unknown,
\* or none of them for \s+), its span and its text
Match(g, i, j, src, symbol) ==
    [g |-> g, start |-> i - 1, end |-> j - 1, text |-> SubSeq(src, i, j - 1),
     symbol |-> symbol]

MatchAtWithoutUnknown(tokenizer, src, i) ==
    LET lit == LiteralEnd(src, i)
        sym == SymbolAt(tokenizer, src, i)
    IN  IF lit # 0 THEN Match("literal", i, lit, src, "")
        ELSE IF sym # "" THEN Match("symbol", i, i + Len(SPELL[sym]), src, sym)
        ELSE IF src[i] \in NameStartChars
            THEN Match("name", i, RunEnd(src, i, NameChars), src, "")
        ELSE IF src[i] \notin Spaces THEN Match("space", i, i + 1, src, "")
        ELSE Match("space", i, RunEnd(src, i, Spaces), src, "")

\* the match of ({literal})|({symbols})|({name})|(\S)|\s+ at position i
MatchAt(tokenizer, src, i) ==
    LET lit == LiteralEnd(src, i)
        sym == SymbolAt(tokenizer, src, i)
    IN  IF lit # 0 THEN Match("literal", i, lit, src, "")
        ELSE IF sym # "" THEN Match("symbol", i, i + Len(SPELL[sym]), src, sym)
        ELSE IF src[i] \in NameStartChars
            THEN Match("name", i, RunEnd(src, i, NameChars), src, "")
        ELSE IF src[i] \notin Spaces THEN Match("unknown", i, i + 1, src, "")
        ELSE Match("space", i, RunEnd(src, i, Spaces), src, "")

\* list(tokenizer.finditer(src)) from position i on
RECURSIVE FindIter(_, _, _)
FindIter(tokenizer, src, i) ==
    IF i > Len(src) THEN <<>>
    ELSE LET m == MatchAt(tokenizer, src, i)
         IN  <<m>> \o FindIter(tokenizer, src, m.end + 1)

\* XPath1Parser.tokenizer, built by Parser.build on the first instance
XPathTokenizer == CreateTokenizer(XPathTable)

-----------------------------------------------------------------------------
(* Values, token instances and errors                                      *)

\* A Python value a token carries: t is its type, s its characters (a str,
\* or str() of a Decimal, or repr() of a float) and n its number (an int).
Value(t, s, n) == [t |-> t, s |-> s, n |-> n]
None == Value("NoneType", <<>>, 0)
StrValue(s) == Value("str", s, 0)
IntValue(n) == Value("int", <<>>, n)
\* type(source), the value of the token parse() builds for a bad argument
TypeValue(t) == Value("type", <<>>, 0)

\* the argument of a parse call: a str, or an object of another type
Str(chars) == [type |-> "str", chars |-> chars]
NotStr(type) == [type |-> type, chars |-> <<>>]

\* Parser.match = None
NoMatch == [g |-> "None", start |-> 0, end |-> 0, text |-> <<>>, symbol |-> ""]
\* Parser.token = None, Parser.next_token = None
NoToken == [symbol |-> "None", value |-> None, items |-> <<>>,
            span |-> <<0, 0>>, label |-> "", lbp |-> 0, namespace |-> "",
            cut_and_sort |-> "unset",
            evaluate |-> "Token.evaluate", select |-> "Token.select"]

\* Token.__init__ through the class table[symbol]: token_class(parser, value).
\* A value of None stands for "not given": the token takes its symbol.
NewToken(table, symbol, value, parser_match) ==
    [symbol |-> symbol,
     value  |-> IF value = None THEN StrValue(SPELL[symbol]) ELSE value,
     items  |-> <<>>,
     span   |-> IF parser_match = NoMatch THEN <<0, 0>>
                ELSE <<parser_match.start, parser_match.end>>,
     label  |-> table[symbol].label,
     lbp    |-> table[symbol].lbp,
     namespace |-> "",      \* no namespace bound
     cut_and_sort |-> "unset",  \* the attribute '|' led sets
     evaluate |-> table[symbol].evaluate.f,   \* the methods of its class
     select |-> table[symbol].select.f]

\* an exception: the message (with its format directive) and the value the
\* directive prints; NoError when nothing was raised
Error(msg, arg) == [msg |-> msg, arg |-> arg]
NoError == Error("", None)

\* the result of no call
NoResult == [err |-> NoError, root |-> NoToken, value |-> None, returns |-> {}]

\* Token.wrong_syntax(message): the ParseError it builds.  parser_token is
\* self.parser.token at the time of the call.
WrongSyntax(self, parser_token, message) ==
    IF message # "" THEN Error(message, None)
    ELSE IF self.symbol \notin SPECIAL_SYMBOLS
        THEN Error("unexpected %s", StrValue(SPELL[self.symbol]))
    ELSE IF self.symbol = "(invalid)" THEN Error("invalid literal %r", self.value)
    ELSE IF self.symbol = "(unknown)" THEN Error("unknown symbol %r", self.value)
    ELSE IF self.symbol = "(name)" THEN Error("unexpected name %r", self.value)
    ELSE IF self.symbol # "(end)" THEN Error("unexpected literal %r", self.value)
    ELSE IF parser_token = NoToken THEN Error("source is empty", None)
    ELSE Error("unexpected end of source", None)

-----------------------------------------------------------------------------
(* Literal conversions                                                     *)

DigitValue(c) ==
    CASE c = "0" -> 0 [] c = "1" -> 1 [] c = "2" -> 2 [] c = "3" -> 3
      [] c = "4" -> 4 [] c = "5" -> 5 [] c = "6" -> 6 [] c = "7" -> 7
      [] c = "8" -> 8 [] c = "9" -> 9

DigitChar(n) ==
    CASE n = 0 -> "0" [] n = 1 -> "1" [] n = 2 -> "2" [] n = 3 -> "3"
      [] n = 4 -> "4" [] n = 5 -> "5" [] n = 6 -> "6" [] n = 7 -> "7"
      [] n = 8 -> "8" [] n = 9 -> "9"

\* int(literal) for a run of digits
RECURSIVE ParseInt(_)
ParseInt(digits) ==
    IF digits = <<>> THEN 0
    ELSE 10 * ParseInt(SubSeq(digits, 1, Len(digits) - 1))
         + DigitValue(digits[Len(digits)])

\* str(n) / repr(n) of a natural number
RECURSIVE NatStr(_)
NatStr(n) ==
    IF n < 10 THEN <<DigitChar(n)>> ELSE NatStr(n \div 10) \o <<DigitChar(n % 10)>>

IntStr(n) == IF n < 0 THEN <<"-">> \o NatStr(-n) ELSE NatStr(n)

CountOf(s, c) == Cardinality({i \in 1..Len(s) : s[i] = c})

IndexOf(s, chars) ==
    IF \E i \in 1..Len(s) : s[i] \in chars
    THEN CHOOSE i \in 1..Len(s) : s[i] \in chars /\ \A k \in 1..(i - 1) : s[k] \notin chars
    ELSE Len(s) + 1

RECURSIVE StripLeadingZeros(_)
StripLeadingZeros(digits) ==
    IF digits # <<>> /\ Head(digits) = "0" THEN StripLeadingZeros(Tail(digits))
    ELSE digits

RECURSIVE StripTrailingZeros(_)
StripTrailingZeros(digits) ==
    IF digits # <<>> /\ digits[Len(digits)] = "0"
    THEN StripTrailingZeros(SubSeq(digits, 1, Len(digits) - 1))
    ELSE digits

Zeros(n) == [i \in 1..n |-> "0"]

\* str(Decimal(literal)) for a literal <digits>.<digits> without exponent:
\* Decimal keeps every digit of the fraction and drops the leading zeros of
\* the integer part; a fraction of no digits leaves an integer.  (The
\* scientific form Decimal switches to below 1E-6 needs more digits than
\* the sources of this model have.)
DecimalStr(literal) ==
    LET dot  == IndexOf(literal, {"."})
        int  == StripLeadingZeros(SubSeq(literal, 1, dot - 1))
        frac == SubSeq(literal, dot + 1, Len(literal))
    IN  (IF int = <<>> THEN <<"0">> ELSE int)
        \o (IF frac = <<>> THEN <<>> ELSE <<".">> \o frac)

\* repr(float(literal)) for a literal <digits>.<digits>e<sign><digits>: the
\* digits of the mantissa with the point moved by the exponent, in the
\* positional form repr() uses from 1e-4 up to 1e16.
FloatRepr(literal) ==
    LET e     == IndexOf(literal, {"e", "E"})
        mant  == SubSeq(literal, 1, e - 1)
        expo  == SubSeq(literal, e + 1, Len(literal))
        neg   == expo # <<>> /\ Head(expo) = "-"
        edig  == IF expo # <<>> /\ Head(expo) \in {"+", "-"} THEN Tail(expo) ELSE expo
        shift == IF neg THEN 0 - ParseInt(edig) ELSE ParseInt(edig)
        dot   == IndexOf(mant, {"."})
        all   == SubSeq(mant, 1, dot - 1) \o SubSeq(mant, dot + 1, Len(mant))
        point == (dot - 1) + shift      \* digits of `all` before the point
        lead  == Len(all) - Len(StripLeadingZeros(all))
        sig   == StripLeadingZeros(all)
        pt    == point - lead           \* digits of `sig` before the point
        int   == IF pt <= 0 THEN <<"0">>
                 ELSE IF pt >= Len(sig) THEN sig \o Zeros(pt - Len(sig))
                 ELSE SubSeq(sig, 1, pt)
        frac  == IF pt <= 0 THEN StripTrailingZeros(Zeros(0 - pt) \o sig)
                 ELSE IF pt >= Len(sig) THEN <<>>
                 ELSE StripTrailingZeros(SubSeq(sig, pt + 1, Len(sig)))
    IN  IF sig = <<>> THEN <<"0", ".", "0">>
        ELSE int \o <<".">> \o (IF frac = <<>> THEN <<"0">> ELSE frac)

\* str.replace(2 * quote, quote): left to right, without overlaps
RECURSIVE ReplaceDoubled(_, _)
ReplaceDoubled(s, quote) ==
    IF s = <<>> THEN <<>>
    ELSE IF Len(s) >= 2 /\ s[1] = quote /\ s[2] = quote
        THEN <<quote>> \o ReplaceDoubled(SubSeq(s, 3, Len(s)), quote)
    ELSE <<Head(s)>> \o ReplaceDoubled(Tail(s), quote)

\* XPath1Parser.unescape
Unescape(string_literal) ==
    ReplaceDoubled(SubSeq(string_literal, 2, Len(string_literal) - 1),
                   IF string_literal[1] = "'" THEN "'" ELSE "\"")

\* the token advance() builds for the text of a literal match, and the
\* message of the exception when the conversion fails ("" when it does not)
LiteralToken(table, literal, parser_match) ==
    IF literal[1] \in {"'", "\""}
    THEN [token |-> NewToken(table, "(string)", StrValue(Unescape(literal)), parser_match),
          message |-> ""]
    ELSE IF Contains(literal, "e") \/ Contains(literal, "E")
    THEN IF CountOf(literal, ".") > 1      \* float(literal) raises ValueError
         THEN [token |-> NewToken(table, "(invalid)", StrValue(literal), parser_match),
               message |-> "could not convert string to float: %r"]
         ELSE [token |-> NewToken(table, "(float)",
                                  Value("float", FloatRepr(literal), 0), parser_match),
               message |-> ""]
    ELSE IF Contains(literal, ".")
    THEN IF CountOf(literal, ".") > 1      \* Decimal(literal) raises DecimalException
         THEN [token |-> NewToken(table, "(invalid)", StrValue(literal), parser_match),
               message |-> "[<class 'decimal.ConversionSyntax'>]"]
         ELSE [token |-> NewToken(table, "(decimal)",
                                  Value("Decimal", DecimalStr(literal), 0), parser_match),
               message |-> ""]
    ELSE [token |-> NewToken(table, "(integer)", IntValue(ParseInt(literal)), parser_match),
          message |-> ""]

-----------------------------------------------------------------------------
(* The parser instance (tdop.py, Parser) of the class XPath1Parser, built   *)
(* with its defaults (strict=True, the namespace map DEFAULT_NAMESPACES).   *)
(* The operators below take the fields of the instance as a record         *)
(*   [symbol_table, source, tokens, match, token, next_token, err, returns] *)
(* and give the record after the call; err is the exception the call       *)
(* raised (NoError when it returned) and returns collects, for every       *)
(* normal return of expression(rbp), the pair <<rbp, next_token.lbp>>.     *)

Raise(parser, err) == [parser EXCEPT !.err = err]
Failed(parser) == parser.err # NoError
\* what a call hands back: the instance and the token returned
Ret(parser, tok) == [parser |-> parser, token |-> tok]

\* the literal branch: next_token, and the error when the conversion failed
WithLiteral(parser, literal) ==
    [parser EXCEPT !.next_token = literal.token,
                   !.err = IF literal.message = "" THEN NoError
                           ELSE WrongSyntax(literal.token, parser.token,
                                            literal.message)]

\* self.next_token = self.symbol_table['(unknown)'](self, text)
\* raise self.next_token.wrong_syntax()
WithUnknown(parser, unknown) ==
    [parser EXCEPT !.next_token = unknown,
                   !.err = WrongSyntax(unknown, parser.token, "")]

\* advance(): the `while True` loop that reads the next match
RECURSIVE NextMatch(_)
NextMatch(parser) ==
    IF parser.tokens = <<>>      \* StopIteration
    THEN [parser EXCEPT !.next_token =
             NewToken(parser.symbol_table, "(end)", None, parser.match)]
    ELSE
      LET m == Head(parser.tokens)
          p == [parser EXCEPT !.match = m, !.tokens = Tail(parser.tokens)]
      IN  CASE m.g = "symbol" ->
                 IF m.symbol \in DOMAIN p.symbol_table
                 THEN [p EXCEPT !.next_token =
                                   NewToken(p.symbol_table, m.symbol, None, m)]
                 ELSE IF ~IsNameLike(m.symbol)
                 THEN WithUnknown(p, NewToken(p.symbol_table, "(unknown)",
                                              StrValue(m.text), m))
                 ELSE [p EXCEPT !.next_token =
                                   NewToken(p.symbol_table, "(name)", StrValue(m.text), m)]
            [] m.g = "literal" -> WithLiteral(p, LiteralToken(p.symbol_table, m.text, m))
            [] m.g = "name" ->
                 [p EXCEPT !.next_token =
                              NewToken(p.symbol_table, "(name)", StrValue(m.text), m)]
            [] m.g = "unknown" ->
                 WithUnknown(p, NewToken(p.symbol_table, "(unknown)",
                                         StrValue(m.text), m))
            [] OTHER ->
                 IF LStrip(RStrip(m.text)) # <<>>
                 THEN Raise(p, Error("unexpected matching %r: incompatible tokenizer",
                                     StrValue(m.text)))
                 ELSE NextMatch(p)

AdvanceUnchecked(parser, symbols) ==
    NextMatch([parser EXCEPT !.token = parser.next_token])

\* Parser.advance(*symbols); symbols = {} when none is given
Advance(parser, symbols) ==
    IF /\ parser.next_token # NoToken
       /\ \/ parser.next_token.symbol = "(end)"
          \/ symbols # {} /\ parser.next_token.symbol \notin symbols
    THEN Raise(parser, WrongSyntax(parser.next_token, parser.token, ""))
    ELSE NextMatch([parser EXCEPT !.token = parser.next_token])

\* a chunk that leaves the whitespace between the tokens out
UntilChunkWithoutSpace(m) ==
    IF m.g = "space" THEN <<>> ELSE LStrip(RStrip(m.text))

\* advance_until(): what a match adds to source_chunk, symbol.strip() for
\* a match of the symbol group and match.group() for any other
UntilChunk(m) ==
    IF m.g = "symbol" THEN LStrip(RStrip(m.text)) ELSE m.text

\* advance_until(): symbol in stop_symbols, for the stripped symbol
IsStop(m, stop_symbols) ==
    m.g = "symbol" /\ \E s \in stop_symbols : SPELL[s] = LStrip(RStrip(m.text))

\* advance_until(): the `while True` loop
RECURSIVE UntilLoop(_, _, _)
UntilLoop(parser, stop_symbols, source_chunk) ==
    IF parser.tokens = <<>>      \* StopIteration
    THEN [parser |-> [parser EXCEPT !.next_token =
                         NewToken(parser.symbol_table, "(end)", None, parser.match)],
          chunk |-> source_chunk]
    ELSE
      LET m == Head(parser.tokens)
          p == [parser EXCEPT !.match = m, !.tokens = Tail(parser.tokens)]
      IN  IF ~IsStop(m, stop_symbols)
          THEN UntilLoop(p, stop_symbols, source_chunk \o UntilChunk(m))
          ELSE IF m.symbol \in DOMAIN p.symbol_table
          THEN [parser |-> [p EXCEPT !.next_token =
                               NewToken(p.symbol_table, m.symbol, None, m)],
                chunk |-> source_chunk]
          ELSE [parser |-> WithUnknown(p, NewToken(p.symbol_table, "(unknown)", None, m)),
                chunk |-> source_chunk]

\* Parser.advance_until(*stop_symbols): the instance after the call and
\* the string returned
AdvanceUntil(parser, stop_symbols) ==
    IF parser.next_token = NoToken
    THEN [parser |-> Raise(parser, Error("AttributeError", None)), chunk |-> <<>>]
    ELSE IF stop_symbols = {}
    THEN [parser |-> Raise(parser, Error("at least a stop symbol required!", None)),
          chunk |-> <<>>]
    ELSE IF parser.next_token.symbol = "(end)"
    THEN [parser |-> Raise(parser, WrongSyntax(parser.next_token, parser.token, "")),
          chunk |-> <<>>]
    ELSE UntilLoop([parser EXCEPT !.token = parser.next_token], stop_symbols, <<>>)

\* Token.expected(*symbols) on next_token
Expected(parser, symbols, message) ==
    IF symbols # {} /\ parser.next_token.symbol \notin symbols
    THEN Raise(parser, WrongSyntax(parser.next_token, parser.token, message))
    ELSE parser

\* XPath1Parser.expected_name(*symbols, message=None)
ExpectedName(parser, symbols, message) ==
    IF parser.next_token.symbol \in symbols THEN parser
    ELSE IF parser.next_token.label = "operator" /\ IsNameLike(parser.next_token.symbol)
    THEN [parser EXCEPT !.next_token =
             NewToken(parser.symbol_table, "(name)",
                      StrValue(SPELL[parser.next_token.symbol]),
                      parser.match)]
    ELSE Raise(parser, WrongSyntax(parser.next_token, parser.token, message))

\* Parser.is_spaced() with before=True, after=True
IsSpaced(parser) ==
    IF parser.token = NoToken THEN FALSE
    ELSE LET start == parser.token.span[1]
             end   == parser.token.span[2]
         IN  IF start > 0 /\ parser.source[start] \in {" ", "\t", "\n"} THEN TRUE
             ELSE end + 1 <= Len(parser.source)
                  /\ parser.source[end + 1] \in {" ", "\t", "\n"}

PATH_STEP_LABELS == {"axis", "kind test"}
PATH_STEP_SYMBOLS == {"(integer)", "(string)", "(float)", "(decimal)", "(name)",
                      "*", "@", "..", ".", "{"}
OPERATORS_MAP == {"=", "!=", ">", ">=", "<", "<="}
XML_NAMESPACE == "http://www.w3.org/XML/1998/namespace"
\* the namespace map of the instance: DEFAULT_NAMESPACES, prefix to URI
Namespaces == (<<"x", "m", "l">> :> XML_NAMESPACE)

\* XPathToken.get_namespace(prefix) raises ElementPathKeyError for a prefix
\* the namespace map does not hold
GetNamespaceFails(prefix) == prefix.s \notin DOMAIN Namespaces
\* and gives the URI of a prefix it holds
GetNamespace(prefix) == Namespaces[prefix.s]

\* XPathToken.bind_namespace(namespace) on next_token
BindNamespace(parser, namespace) ==
    [parser EXCEPT !.next_token.namespace = namespace]

\* '{}'.format(value)
Format(value) ==
    CASE value.t = "int" -> IntStr(value.n)
      [] value.t = "NoneType" -> <<"N", "o", "n", "e">>
      [] OTHER -> value.s

\* self[:] = items
WithItems(self, items) == [self EXCEPT !.items = items]

\* the pair expression(rbp) is about when it returns
Returned(parser, rbp) ==
    [parser EXCEPT !.returns = @ \cup {<<rbp, parser.next_token.lbp>>}]

\* the statement after a call: an exception the call raised ends the caller
\* too, otherwise the caller goes on with what the call gave
Then(called, Go(_)) == IF Failed(called.parser) THEN called ELSE Go(called)

\* self.append(item)
More(self, item) == WithItems(self, Append(self.items, item))

RECURSIVE Expression(_, _)
RECURSIVE ExpressionLoop(_, _, _)
RECURSIVE Nud(_, _)
RECURSIVE Led(_, _, _)
RECURSIVE ArgumentsAny(_, _)
RECURSIVE ArgumentsMin(_, _, _, _)
RECURSIVE ArgumentsMax(_, _, _, _)

\* expression(rbp) from the while loop on, with `left` parsed so far
ExpressionLoop(parser, rbp, left) ==
    IF rbp < parser.next_token.lbp
    THEN Then(Ret(Advance(parser, {}), parser.next_token), LAMBDA a :
         Then(Led(a.parser, a.token, left), LAMBDA led :
         ExpressionLoop(led.parser, rbp, led.token)))
    ELSE Ret(Returned(parser, rbp), left)

ExpressionOneLed(parser, rbp) ==
    Then(Ret(Advance(parser, {}), parser.next_token), LAMBDA a :
    Then(Nud(a.parser, a.token), LAMBDA nud :
    IF rbp < nud.parser.next_token.lbp
    THEN Then(Ret(Advance(nud.parser, {}), nud.parser.next_token), LAMBDA b :
         Then(Led(b.parser, b.token, nud.token), LAMBDA led :
         Ret(Returned(led.parser, rbp), led.token)))
    ELSE Ret(Returned(nud.parser, rbp), nud.token)))

\* Parser.expression(rbp)
Expression(parser, rbp) ==
    Then(Ret(Advance(parser, {}), parser.next_token), LAMBDA a :
    Then(Nud(a.parser, a.token), LAMBDA nud :
    ExpressionLoop(nud.parser, rbp, nud.token)))

\* self[:] = self.parser.expression(rbp), : the one child of a prefix form
OneChild(parser, self, rbp) ==
    Then(Expression(parser, rbp), LAMBDA e :
    Ret(e.parser, WithItems(self, <<e.token>>)))

TwoChildrenAnyRbp(parser, self, left, rbp) ==
    Then(Expression(parser, 0), LAMBDA e :
    Ret(e.parser, WithItems(self, <<left, e.token>>)))

\* self[:] = left, self.parser.expression(rbp)
TwoChildren(parser, self, left, rbp) ==
    Then(Expression(parser, rbp), LAMBDA e :
    Ret(e.parser, WithItems(self, <<left, e.token>>)))

\* function.nud with nargs=None: the loop that reads the arguments
ArgumentsAny(parser, self) ==
    Then(Expression(parser, 5), LAMBDA e :
    IF e.parser.next_token.symbol # "," THEN Ret(e.parser, More(self, e.token))
    ELSE Then(Ret(Advance(e.parser, {}), More(self, e.token)), LAMBDA a :
         ArgumentsAny(a.parser, a.token)))

\* function.nud: `while k < min_args`, with k = len(self)
ArgumentsMin(parser, self, min_args, few) ==
    IF Len(self.items) >= min_args THEN Ret(parser, self)
    ELSE IF parser.next_token.symbol = ")" THEN Ret(Raise(parser, few), self)
    ELSE Then(Expression(parser, 5), LAMBDA e :
         IF Len(self.items) + 1 >= min_args THEN Ret(e.parser, More(self, e.token))
         ELSE IF e.parser.next_token.symbol = ")" THEN Ret(Raise(e.parser, few), self)
         ELSE Then(Ret(Advance(e.parser, {","}), More(self, e.token)), LAMBDA a :
              ArgumentsMin(a.parser, a.token, min_args, few)))

\* function.nud: `while k < max_args`, with k = len(self)
ArgumentsMax(parser, self, max_args, many) ==
    IF Len(self.items) >= max_args THEN Ret(parser, self)
    ELSE IF parser.next_token.symbol = ","
    THEN Then(Ret(Advance(parser, {","}), self), LAMBDA a :
         Then(Expression(a.parser, 5), LAMBDA e :
         ArgumentsMax(e.parser, More(self, e.token), max_args, many)))
    ELSE IF Len(self.items) = 0 /\ parser.next_token.symbol # ")"
    THEN Then(Expression(parser, 5), LAMBDA e :
         ArgumentsMax(e.parser, More(self, e.token), max_args, many))
    ELSE Ret(parser, self)

\* the nud_ closure of XPath1Parser.function, for nargs = lo..hi
\* (lo = hi = -1 stands for nargs=None)
FunctionNud(parser, tok, lo, hi) ==
    LET self == [tok EXCEPT !.value = None]
        \* msg if min_args > 1 else msg[:-1]
        few  == Error(IF lo > 1 THEN "Too few arguments: expected at least %s arguments"
                      ELSE "Too few arguments: expected at least %s argument",
                      IntValue(lo))
        many == Error(IF hi > 1 THEN "Too many arguments: expected at most %s arguments"
                      ELSE "Too many arguments: expected at most %s argument",
                      IntValue(hi))
    IN  Then(Ret(Advance(parser, {"("}), self), LAMBDA a :
        IF lo = -1
        THEN IF a.parser.next_token.symbol = ")"
             THEN Ret(Raise(a.parser, Error("at least an argument is required", None)),
                      self)
             ELSE Then(ArgumentsAny(a.parser, WithItems(self, <<>>)), LAMBDA args :
                  Ret(Advance(args.parser, {")"}), args.token))
        ELSE IF lo = 0 /\ hi = 0
        THEN IF a.parser.next_token.symbol # ")"
             THEN Ret(Raise(a.parser, Error("%s has no arguments",
                                            StrValue(SPELL[self.symbol]))), self)
             ELSE Ret(Advance(a.parser, {}), self)
        ELSE Then(ArgumentsMin(a.parser, self, lo, few), LAMBDA first :
             Then(ArgumentsMax(first.parser, first.token, hi, many), LAMBDA rest :
             IF rest.parser.next_token.symbol = ","
             THEN Ret(Raise(rest.parser, many), rest.token)
             ELSE Ret(Advance(rest.parser, {")"}), rest.token))))

PathStepUnchecked(parser) == parser

\* if self.parser.next_token.label not in self.parser.PATH_STEP_LABELS:
\*     self.parser.expected_name(*self.parser.PATH_STEP_SYMBOLS)
PathStep(parser) ==
    IF parser.next_token.label \notin PATH_STEP_LABELS
    THEN ExpectedName(parser, PATH_STEP_SYMBOLS, "") ELSE parser

RootNudWithoutFallback(parser, self, step) ==
    Then(Ret(step, self), LAMBDA checked : OneChild(checked.parser, self, 75))

\* the nud of '/': `step` is the parser after the check of the lookahead;
\* when the check raised, `except SyntaxError: return self`
RootNud(parser, self, step) ==
    IF Failed(step) THEN Ret(parser, self)
    ELSE OneChild(step, self, 75)

\* token.nud() for the token class of `self`; parser.token is `self`
Nud(parser, self) ==
    LET nud  == parser.symbol_table[self.symbol].nud
        next == parser.next_token
    IN  CASE nud.f = "Token.nud" ->
               Ret(Raise(parser, WrongSyntax(self, parser.token, "")), self)
          [] nud.f \in {"literal.nud", "nullary.nud"} -> Ret(parser, self)
          [] nud.f = "name.nud" ->
               IF next.symbol = "("
               THEN Ret(Raise(parser, Error("unknown function %r", self.value)), self)
               ELSE IF next.symbol = "::"
               THEN Ret(Raise(parser, Error("axis '%s::' not found", self.value)), self)
               ELSE Ret(parser, self)
          [] nud.f = "brace.nud" ->      \* self.parser.strict
               Ret(Raise(parser, WrongSyntax(self, parser.token,
                             "not allowed symbol if parser has strict=True")), self)
          [] nud.f = "variable.nud" ->
               Then(Ret(ExpectedName(parser, {"(name)"}, ""), self), LAMBDA named :
               Then(OneChild(named.parser, self, 90), LAMBDA e :
               IF Contains(e.token.items[1].value.s, ":")
               THEN Ret(Raise(e.parser,
                        WrongSyntax(e.token.items[1], e.parser.token,
                          "variable reference requires a simple reference name")),
                        e.token)
               ELSE e))
          [] nud.f = "prefix.nud" -> OneChild(parser, self, nud.bp)
          [] nud.f = "descendant.nud" ->
               Then(Ret(PathStep(parser), self), LAMBDA step :
               OneChild(step.parser, self, 75))
          [] nud.f = "root.nud" -> RootNud(parser, self, PathStep(parser))
          [] nud.f = "paren.nud" ->
               Then(OneChild(parser, self, 0), LAMBDA e :
               Ret(Advance(e.parser, {")"}), e.token))
          [] nud.f = "attribute.nud" ->
               Then(Ret(ExpectedName(parser, {"*", "(name)", ":"},
                                     "invalid attribute specification"), self),
                    LAMBDA named : OneChild(named.parser, self, 80))
          [] nud.f = "axis.nud" ->
               Then(Ret(Advance(parser, {"::"}), self), LAMBDA a :
               Then(Ret(Expected(a.parser,
                                 {"(name)", "*", "text", "node", "document-node",
                                  "comment", "processing-instruction", "attribute",
                                  "schema-attribute", "element", "schema-element"}, ""),
                        self), LAMBDA checked :
               OneChild(checked.parser, self, nud.bp)))
          [] nud.f = "function.nud" -> FunctionNud(parser, self, nud.lo, nud.hi)

QNameLocal(self) == [self EXCEPT !.value = StrValue(Format(self.items[2].value))]

\* self.value = '{}:{}'.format(self[0].value, self[1].value)
QName(self) ==
    [self EXCEPT !.value = StrValue(Format(self.items[1].value) \o <<":">>
                                    \o Format(self.items[2].value))]

\* the led of ':' (xpath1_parser.py), for version 1.0
ColonLed(parser, self, left) ==
    IF left.symbol # "(name)"         \* left.expected('(name)')
    THEN Ret(Raise(parser, WrongSyntax(left, parser.token, "")), self)
    ELSE Then(Ret(IF parser.next_token.label \notin {"function", "constructor"}
                  THEN ExpectedName(parser, {"(name)", "*"}, "") ELSE parser, self),
              LAMBDA named :
         IF IsSpaced(named.parser)
         THEN Ret(Raise(named.parser, WrongSyntax(self, named.parser.token,
                      "a QName cannot contains spaces before or after ':'")), self)
         ELSE IF GetNamespaceFails(left.value)
         THEN Ret(Raise(named.parser, Error("prefix %r is not declared", left.value)),
                  self)
         ELSE Then(TwoChildren(BindNamespace(named.parser, GetNamespace(left.value)),
                               self, left, 90), LAMBDA e :
              IF e.token.items[2].symbol = ":"
              THEN Ret(Raise(e.parser, WrongSyntax(QName(e.token), e.parser.token,
                                                   "%r is not a QName")),
                       QName(e.token))
              ELSE Ret(e.parser, QName(e.token))))

\* '|' led: the new union cuts and sorts, a left operand that is itself a
\* union no longer does
UnionLed(parser, self, left) ==
    TwoChildren(parser, [self EXCEPT !.cut_and_sort = "True"],
                IF left.symbol \in {"|", "union"}
                THEN [left EXCEPT !.cut_and_sort = "False"] ELSE left, 50)

\* token.led(left) for the token class of `self`; parser.token is `self`
\* a led of the comparison operators that takes any left operand
ComparisonLedChained(parser, self, left) == TwoChildren(parser, self, left, 30)

\* the led of '=', '!=', '<', '>', '<=' and '>='
ComparisonLed(parser, self, left) ==
    IF left.symbol \in OPERATORS_MAP
    THEN Ret(Raise(parser, WrongSyntax(self, parser.token, "")), self)
    ELSE TwoChildren(parser, self, left, 30)

Led(parser, self, left) ==
    LET led  == parser.symbol_table[self.symbol].led
    IN  CASE led.f = "Token.led" ->
               Ret(Raise(parser, WrongSyntax(self, parser.token, "")), self)
          [] led.f = "infix.led" -> TwoChildren(parser, self, left, led.bp)
          [] led.f = "colon.led" -> ColonLed(parser, self, left)
          [] led.f = "comparison.led" -> ComparisonLed(parser, self, left)
          [] led.f = "union.led" -> UnionLed(parser, self, left)
          [] led.f = "path.led" ->
               Then(Ret(PathStep(parser), self), LAMBDA step :
               TwoChildren(step.parser, self, left, 75))
          [] led.f = "predicate.led" ->
               Then(TwoChildren(parser, self, left, 0), LAMBDA e :
               Ret(Advance(e.parser, {"]"}), e.token))

-----------------------------------------------------------------------------
(* Parser.parse and XPath1Parser.parse                                     *)

\* self.tokenizer: the tokenizer Parser.build made of the symbol table
Tokenizer(parser) == CreateTokenizer(parser.symbol_table)

\* the try body of Parser.parse(source)
ParseBody(parser, arg) ==
    IF arg.type # "str"      \* tokenizer.finditer(source) raises TypeError
    THEN Ret(Raise(parser,
                   WrongSyntax(NewToken(parser.symbol_table, "(invalid)",
                                        TypeValue(arg.type), parser.match),
                               parser.token, "invalid source type, {}")), NoToken)
    ELSE Then(Ret(Advance([parser EXCEPT
                              !.tokens = FindIter(Tokenizer(parser), arg.chars, 1),
                              !.source = arg.chars], {}), NoToken), LAMBDA a :
         Then(Expression(a.parser, 0), LAMBDA e :
         Ret(Expected(e.parser, {"(end)"}, ""), e.token)))

FinallyOnReturn(parser) ==
    IF Failed(parser) THEN parser
    ELSE [parser EXCEPT !.tokens = <<>>, !.match = NoMatch,
                        !.token = NoToken, !.next_token = NoToken]

\* the finally clause of Parser.parse
Finally(parser) ==
    [parser EXCEPT !.tokens = <<>>, !.match = NoMatch,
                   !.token = NoToken, !.next_token = NoToken]

\* how parse() ends: the finally clause, then the root goes to the caller
\* unless an exception does
Leave(body) ==
    Ret(Finally(body.parser), IF Failed(body.parser) THEN NoToken ELSE body.token)

\* Parser.parse(source): the instance after the call and the root returned
Parse(parser, arg) == Leave(ParseBody(parser, arg))

-----------------------------------------------------------------------------
(* Static evaluation: root_token.evaluate() with no context.  A value      *)
(* whose s is Unknown has the type given but was not computed here.        *)

Unknown == <<"?">>
BoolValue(b) == Value("bool", <<>>, IF b THEN 1 ELSE 0)
\* what evaluate() does: the value returned, or the exception raised
Returns(value) == [raised |-> "", value |-> value]
Raises(exception) == [raised |-> exception, value |-> None]

\* a % b of Python for integers, b # 0
PyMod(a, b) == IF b > 0 THEN a % b ELSE 0 - ((0 - a) % (0 - b))
Abs(n) == IF n < 0 THEN 0 - n ELSE n

\* XPathToken.boolean_value of an evaluated operand (a Decimal that was not
\* computed has n = 1 when it is the inexact quotient of two integers, which
\* is not zero)
BooleanValue(value) ==
    CASE value.t \in {"int", "bool"} /\ value.s # Unknown -> BoolValue(value.n # 0)
      [] value.t = "str" -> BoolValue(value.s # <<>>)
      [] value.t = "Decimal" /\ value.s # Unknown -> BoolValue(value.s # <<"0">>)
      [] value.t = "Decimal" /\ value.n = 1 -> BoolValue(TRUE)
      [] OTHER -> Value("bool", Unknown, 0)

compatibility_off == FALSE

\* XPath1Parser.compatibility_mode: a property that returns True
compatibility_mode == TRUE

\* op1 <symbol> op2 on the operands get_operands gave
Arithmetic(symbol, op1, op2) ==
    IF op1.t = "int" /\ op2.t = "int"
    THEN CASE symbol = "+" -> Returns(IntValue(op1.n + op2.n))
           [] symbol = "-" -> Returns(IntValue(op1.n - op2.n))
           [] symbol = "*" -> Returns(IntValue(op1.n * op2.n))
           [] symbol = "div" ->
                IF op2.n # 0
                THEN IF PyMod(op1.n, op2.n) = 0
                     THEN Returns(Value("Decimal",
                             IntStr((IF (op1.n < 0) = (op2.n < 0) THEN 1 ELSE -1)
                                    * (Abs(op1.n) \div Abs(op2.n))), 0))
                     ELSE Returns(Value("Decimal", Unknown, 1))
                ELSE IF ~compatibility_mode THEN Raises("FOAR0001")
                ELSE IF op1.n = 0 THEN Returns(Value("float", <<"n", "a", "n">>, 0))
                ELSE IF op1.n > 0 THEN Returns(Value("float", <<"i", "n", "f">>, 0))
                ELSE Returns(Value("float", <<"-", "i", "n", "f">>, 0))
           [] symbol = "mod" ->
                IF op2.n = 0 THEN Raises("FOAR0001")
                ELSE IF op1.n * op2.n >= 0 THEN Returns(IntValue(PyMod(op1.n, op2.n)))
                ELSE Returns(IntValue(0 - PyMod(Abs(op1.n), op2.n)))
    ELSE IF {op1.t, op2.t} \subseteq {"int", "Decimal"} /\ symbol \in {"+", "-", "*"}
    THEN Returns(Value("Decimal", Unknown, 0))
    ELSE Raises("?")

\* XPathToken.get_operands(context, cls): both children evaluated, op1 then
\* op2; an exception raised by a child goes through
GetOperands(a, b) ==
    IF a.raised # "" THEN a
    ELSE IF b.raised # "" THEN b
    ELSE Returns(<<a.value, b.value>>)

\* op1, op2 = self.get_operands(...); return op1 <symbol> op2
BinaryArithmetic(symbol, a, b) ==
    LET operands == GetOperands(a, b)
    IN  IF operands.raised # "" THEN operands
        ELSE Arithmetic(symbol, operands.value[1], operands.value[2])

\* the evaluate method f of the token class of `self`, context=None; a and
\* b are what evaluate() gives on the first and on the second child
EvaluateWith(f, self, a, b) ==
        CASE f = "Token.evaluate" -> Returns(None)
          [] f = "literal.evaluate" -> Returns(self.value)
          [] f = "paren.evaluate" -> a
          [] f \in {"true().evaluate", "false().evaluate"} ->
               Returns(BoolValue(self.symbol = "true"))
          [] f \in {"name.evaluate", "variable.evaluate"} ->
               Raises("MissingContextError")
          [] f \in {"plus.evaluate", "minus.evaluate"} ->
               IF Len(self.items) = 1
               THEN IF a.raised # "" THEN a
                    ELSE IF a.value.t = "int"
                    THEN Returns(IntValue(IF self.symbol = "-" THEN 0 - a.value.n
                                          ELSE a.value.n))
                    ELSE Raises("?")
               ELSE BinaryArithmetic(self.symbol, a, b)
          [] f = "times.evaluate" ->
               IF Len(self.items) = 0 THEN Raises("MissingContextError")
               ELSE BinaryArithmetic(self.symbol, a, b)
          [] f \in {"div.evaluate", "mod.evaluate"} ->
               BinaryArithmetic(self.symbol, a, b)
          [] f = "or.evaluate" ->
               IF a.raised # "" THEN a
               ELSE IF BooleanValue(a.value).s = Unknown THEN Raises("?")
               ELSE IF BooleanValue(a.value).n = 1 THEN Returns(BoolValue(TRUE))
               ELSE IF b.raised # "" THEN b
               ELSE Returns(BooleanValue(b.value))
          [] f = "and.evaluate" ->
               IF a.raised # "" THEN a
               ELSE IF BooleanValue(a.value).s = Unknown THEN Raises("?")
               ELSE IF BooleanValue(a.value).n = 0 THEN Returns(BoolValue(FALSE))
               ELSE IF b.raised # "" THEN b
               ELSE Returns(BooleanValue(b.value))
          [] f = "comparison.evaluate" ->
               IF a.raised # "" THEN a
               ELSE IF b.raised # "" THEN b
               ELSE IF a.value.t = "int" /\ b.value.t = "int"
               THEN Returns(BoolValue(
                      CASE self.symbol = "=" -> a.value.n = b.value.n
                        [] self.symbol = "!=" -> a.value.n # b.value.n
                        [] self.symbol = "<" -> a.value.n < b.value.n
                        [] self.symbol = "<=" -> a.value.n <= b.value.n
                        [] self.symbol = ">" -> a.value.n > b.value.n
                        [] self.symbol = ">=" -> a.value.n >= b.value.n))
               ELSE IF {a.value.t, b.value.t} \subseteq {"int", "Decimal", "bool"}
               THEN Returns(Value("bool", Unknown, 0))
               ELSE Raises("?")
          [] OTHER -> Raises("?")

RECURSIVE Evaluate(_)
\* self.evaluate(), context=None
Evaluate(self) ==
    EvaluateWith(self.evaluate, self,
                 Evaluate(self.items[1]), Evaluate(self.items[2]))

\* a parse() that swallows every exception of the static evaluation
OutcomesAllSwallowed(parsed, static) ==
    {[parser |-> parsed.parser, token |-> parsed.token,
      value |-> IF Failed(parsed.parser) \/ static.raised # "" THEN None
                ELSE static.value]}

\* how XPath1Parser.parse ends, for what Parser.parse gave and what the
\* static evaluation of the root did: a MissingContextError is swallowed,
\* any other exception goes to the caller.  Raises("?") marks an evaluation
\* this model does not decide: it may return or raise, and both outcomes
\* are kept.
Outcomes(parsed, static) ==
    LET done(err, value) ==
            [parser |-> Raise(parsed.parser, err), token |-> parsed.token,
             value |-> value]
    IN  IF Failed(parsed.parser) THEN {done(parsed.parser.err, None)}
        ELSE IF static.raised = "" THEN {done(NoError, static.value)}
        ELSE IF static.raised = "MissingContextError" THEN {done(NoError, None)}
        ELSE IF static.raised = "?"
        THEN {done(NoError, Value("?", Unknown, 0)),
              done(Error("evaluation error", None), None)}
        ELSE {done(Error(static.raised, None), None)}

\* root_token.evaluate() on the root super().parse(source) returned
Evaluated(parsed) == Outcomes(parsed, Evaluate(parsed.token))

\* XPath1Parser.parse(source): Parser.parse, then the static evaluation
XPathParse(parser, arg) == Evaluated(Parse(parser, arg))

-----------------------------------------------------------------------------
(* Token.tree and Token.source                                             *)

\* repr() of a str
ReprChars(s, quote) ==
    LET Esc(c) == CASE c = "\\" -> <<"\\", "\\">>
                    [] c = "\n" -> <<"\\", "n">>
                    [] c = "\t" -> <<"\\", "t">>
                    [] c = "\r" -> <<"\\", "r">>
                    [] c = quote -> <<"\\", c>>
                    [] OTHER -> <<c>>
        F[i \in 0..Len(s)] == IF i = 0 THEN <<>> ELSE F[i - 1] \o Esc(s[i])
    IN  F[Len(s)]

ReprStr(s) ==
    IF Contains(s, "'") /\ ~Contains(s, "\"")
    THEN <<"\"">> \o ReprChars(s, "") \o <<"\"">>
    ELSE <<"'">> \o ReprChars(s, "'") \o <<"'">>

\* repr(value), '%r' % value
Repr(value) ==
    CASE value.t = "str" -> ReprStr(value.s)
      [] value.t = "int" -> IntStr(value.n)
      [] value.t = "NoneType" -> <<"N", "o", "n", "e">>
      [] OTHER -> value.s

\* ' '.join(parts)
RECURSIVE Join(_)
Join(parts) ==
    IF parts = <<>> THEN <<>>
    ELSE IF Len(parts) = 1 THEN parts[1]
    ELSE parts[1] \o <<" ">> \o Join(Tail(parts))

RECURSIVE SourceOf(_)
\* Token.source
SourceOf(self) ==
    LET symbol == self.symbol
        length == Len(self.items)
        item(i) == SourceOf(self.items[i])
    IN  IF symbol = "(name)" THEN Format(self.value)
        ELSE IF symbol = "(decimal)" THEN Format(self.value)
        ELSE IF symbol \in SPECIAL_SYMBOLS THEN Repr(self.value)
        ELSE IF length = 0 THEN SPELL[symbol]
        ELSE IF length = 1
        THEN IF self.label = "postfix operator"     \* 'postfix' in self.label
             THEN Join(<<item(1), SPELL[symbol]>>)
             ELSE Join(<<SPELL[symbol], item(1)>>)
        ELSE IF length = 2 THEN Join(<<item(1), SPELL[symbol], item(2)>>)
        ELSE Join(<<SPELL[symbol]>> \o [i \in 1..length |-> item(i)])

RECURSIVE Tree(_)
\* the structure of a token tree: symbol, value and children of every node
\* (what Token.tree prints, with the values kept as values)
Tree(self) ==
    <<self.symbol, self.value, [i \in 1..Len(self.items) |-> Tree(self.items[i])]>>

-----------------------------------------------------------------------------
(* Token.iter.  A token of the tree is named by its path: the indexes,     *)
(* counted from 1, of the children that lead to it from the root.          *)

\* whether iter yields the token itself
Yielded(self, symbols, path) ==
    IF symbols = {} \/ self.symbol \in symbols THEN <<path>> ELSE <<>>

RECURSIVE TokenIter(_, _, _)
RECURSIVE TokenIterFrom(_, _, _, _)

\* an iteration that yields every token before its children
TokenIterPreorder(self, symbols, path) ==
    Yielded(self, symbols, path) \o TokenIterFrom(self, symbols, path, 1)

\* self.iter(*symbols)
TokenIter(self, symbols, path) ==
    IF Len(self.items) = 0 THEN Yielded(self, symbols, path)
    ELSE IF Len(self.items) = 1
    THEN Yielded(self, symbols, path) \o TokenIter(self.items[1], symbols, path \o <<1>>)
    ELSE TokenIter(self.items[1], symbols, path \o <<1>>)
         \o Yielded(self, symbols, path)
         \o TokenIterFrom(self, symbols, path, 2)

\* for t in self._items[k - 1:]: yield from t.iter(*symbols)
TokenIterFrom(self, symbols, path, k) ==
    IF k > Len(self.items) THEN <<>>
    ELSE TokenIter(self.items[k], symbols, path \o <<k>>)
         \o TokenIterFrom(self, symbols, path, k + 1)

-----------------------------------------------------------------------------
(* Selection: root_token.select(context) on a small document.  A lazy      *)
(* sequence is modelled by the sequence of the items it yields; when the  *)
(* generator raises, a last item of kind "raise" names the exception.     *)

\* An item a selection yields.  kind is "element" (an ElementTree element),
\* "attribute" (the (name, value) tuple the attribute axis builds), "atomic"
\* (a value) or "document"; id is the place of the node in document order,
\* owner the id of its parent element.  An item whose type is not "" is the
\* typed tuple (node, type) wrapped around the node.
Item(kind, id, owner, name, value) ==
    [kind |-> kind, id |-> id, owner |-> owner, name |-> name, value |-> value,
     type |-> ""]
Element(id, owner, tag) == Item("element", id, owner, tag, None)
Attribute(id, owner, name, value) == Item("attribute", id, owner, name, StrValue(value))
Atomic(value) == Item("atomic", 0, 0, <<>>, value)
DocumentNode == Item("document", 0, 0, <<>>, None)
\* context.item = None
NoItem == Item("None", 0, 0, <<>>, None)
\* the exception a generator raised
RaiseItem(code) == Item("raise", 0, 0, code, None)

is_etree_element(item) == item.kind = "element" /\ item.type = ""
is_xpath_node(item) == item.kind \in {"element", "attribute", "document"}
is_element_node(item, tag) == is_etree_element(item) /\ item.name = tag
is_attribute_node(item, name) ==
    item.kind = "attribute" /\ item.type = "" /\ item.name = name
\* isinstance(item, tuple)
IsTuple(item) == item.kind = "attribute" \/ item.type # ""
\* isinstance(item, (TypedAttribute, TypedElement))
IsTyped(item) == item.kind \in {"element", "attribute"} /\ item.type # ""
\* item[0] of a typed tuple
Wrapped(item) == [item EXCEPT !.type = ""]

\* x == y of Python: an element equals itself only, tuples are compared
\* field by field, whatever element the attribute belongs to
PyEq(x, y) ==
    /\ x.kind = y.kind
    /\ x.type = y.type
    /\ IF x.kind = "element" THEN x.id = y.id
       ELSE x.name = y.name /\ x.value = y.value

\* `x in items` for a list
In(x, items) == \E i \in 1..Len(items) : PyEq(items[i], x)

\* the documents selected on, as the sequences of their nodes in document
\* order:  <root><a/><a/><a/></root>,
\* <root><a i="1"><b/></a><c/><a i="1"><b/><b/></a><b/></root> and
\* <root><a i="1"/><a i="2"/></root>
Documents == {
    << Element(1, 0, <<"r", "o", "o", "t">>), Element(2, 1, <<"a">>),
       Element(3, 1, <<"a">>), Element(4, 1, <<"a">>) >>,
    << Element(1, 0, <<"r", "o", "o", "t">>), Element(2, 1, <<"a">>),
       Attribute(3, 2, <<"i">>, <<"1">>), Element(4, 2, <<"b">>),
       Element(5, 1, <<"c">>), Element(6, 1, <<"a">>),
       Attribute(7, 6, <<"i">>, <<"1">>), Element(8, 6, <<"b">>),
       Element(9, 6, <<"b">>), Element(10, 1, <<"b">>) >>,
    << Element(1, 0, <<"r", "o", "o", "t">>), Element(2, 1, <<"a">>),
       Attribute(3, 2, <<"i">>, <<"1">>), Element(4, 1, <<"a">>),
       Attribute(5, 4, <<"i">>, <<"2">>) >> }

\* XPathContext(root, item): nodes are the nodes under the root, document
\* tells whether the root is a document (an ElementTree) or its root element
Context(nodes, document, item) ==
    [nodes |-> nodes, document |-> document, item |-> item,
     position |-> 1, size |-> 1, axis |-> ""]
\* no context was built
NoContext == Context(<<>>, FALSE, NoItem)
\* no selection was made
NotSelected == <<NoItem>>

\* the contexts selections start from: on a document, or on a root element
\* with the item left to None or set to the root element
Contexts ==
    {Context(nodes, TRUE, NoItem) : nodes \in Documents}
    \cup {Context(nodes, FALSE, NoItem) : nodes \in Documents}
    \cup {Context(nodes, FALSE, nodes[1]) : nodes \in Documents}

\* context.root
Root(context) == IF context.document THEN DocumentNode ELSE context.nodes[1]
is_document_node(item) == item.kind = "document"

\* the items a generator yielded before it raised, the exception included
RECURSIVE Cut(_)
Cut(items) ==
    IF items = <<>> THEN <<>>
    ELSE IF Head(items).kind = "raise" THEN <<Head(items)>>
    ELSE <<Head(items)>> \o Cut(Tail(items))
Raised(items) == items # <<>> /\ items[Len(items)].kind = "raise"

\* the nodes of the document that pass the test, in document order
Nodes(context, Test(_)) == SelectSeq(context.nodes, Test)

\* context.iter_children_or_self(): under the attribute axis the item
\* itself, from the document position the root element, else the children
IterChildrenOrSelf(context) ==
    IF context.axis # "" THEN <<context.item>>
    ELSE IF context.item = NoItem THEN <<context.nodes[1]>>
    ELSE IF ~is_etree_element(context.item) THEN <<>>
    ELSE Nodes(context, LAMBDA n : n.kind = "element" /\ n.owner = context.item.id)

\* context.iter_attributes(): the attribute tuples of the element
IterAttributes(context) ==
    IF ~is_etree_element(context.item) THEN <<>>
    ELSE Nodes(context, LAMBDA n : n.kind = "attribute" /\ n.owner = context.item.id)

\* context.iter_self()
IterSelf(context) == <<context.item>>

\* context.get_parent(item)
GetParent(context, item) ==
    IF item.owner = 0 THEN NoItem ELSE context.nodes[item.owner]

\* a Python set built from the items: one item of each that are equal
RECURSIVE PySet(_)
PySet(items) ==
    IF items = <<>> THEN <<>>
    ELSE LET rest == PySet(SubSeq(items, 1, Len(items) - 1))
             last == items[Len(items)]
         IN  IF In(last, rest) THEN rest ELSE Append(rest, last)

\* context.iter_results(results): the nodes of the set, in document order
IterResults(context, results) ==
    (IF In(DocumentNode, results) THEN <<DocumentNode>> ELSE <<>>)
    \o Nodes(context, LAMBDA n : In(n, results))

\* the context with its item, position and size moved
Moved(context, item, position, size) ==
    [context EXCEPT !.item = item, !.position = position, !.size = size,
                    !.axis = ""]

\* XPathToken.boolean_value(obj) of the list a predicate yielded: "True",
\* "False", the error code raised, or "?" when the value was not computed
BooleanValueOf(items) ==
    IF items = <<>> THEN "False"
    ELSE IF IsTuple(items[1]) \/ is_etree_element(items[1]) THEN "True"
    ELSE IF Len(items) > 1 THEN "FORG0006"
    ELSE IF BooleanValue(items[1].value).s = Unknown THEN "?"
    ELSE IF BooleanValue(items[1].value).n = 1 THEN "True" ELSE "False"

\* isinstance(item, NumericProxy): an int, a float or a Decimal, not a bool
IsNumeric(item) ==
    item.kind = "atomic" /\ item.value.t \in {"int", "float", "Decimal"}

\* str() of a Decimal or repr() of a float that is the integer n: the
\* digits of n, then maybe a point and zeros
IsIntegerText(s, n) ==
    \E k \in 1..Len(s) :
        /\ SubSeq(s, 1, k) = IntStr(n)
        /\ k = Len(s) \/ (s[k + 1] = "." /\ \A j \in (k + 2)..Len(s) : s[j] = "0")

\* position == value for a numeric value; a quotient that was not computed
\* is not an integer, and neither are inf and nan
NumericEquals(position, value) ==
    IF value.t = "int" THEN position = value.n
    ELSE value.s # Unknown /\ IsIntegerText(value.s, position)

\* XPathToken.select, the method of the tokens that define none: the value
\* of evaluate(context), when it is not None
DefaultSelect(static) ==
    IF static.raised # "" THEN <<RaiseItem(<<"?">>)>>
    ELSE IF static.value = None THEN <<>>
    ELSE <<Atomic(static.value)>>

\* '(name)' select without a schema: the children (or the item itself,
\* under an axis) that are elements or attributes of that name
NameSelect(self, context) ==
    SelectSeq(IterChildrenOrSelf(context),
              LAMBDA item : is_attribute_node(item, self.value.s)
                            \/ is_element_node(item, self.value.s))

\* '.' select
SelfSelect(context) ==
    IF context.item # NoItem THEN IterSelf(context)
    ELSE IF is_document_node(Root(context)) THEN <<Root(context)>>
    ELSE <<>>

\* '..' select
ParentSelect(context) ==
    IF is_etree_element(GetParent(context, context.item))
    THEN <<GetParent(context, context.item)>> ELSE <<>>

\* the body of the inner loop of '/' select for one result of the right
\* operand: out is what was yielded so far, items the list of the results
\* kept
PathResult(res, kept) ==
    IF ~is_etree_element(res) /\ ~IsTuple(res)
    THEN [kept EXCEPT !.out = Append(@, res)]
    ELSE IF In(res, kept.items) THEN kept
    ELSE IF IsTyped(res)
    THEN IF ~In(Wrapped(res), kept.items)
         THEN [items |-> Append(kept.items, res), out |-> Append(kept.out, res)]
         ELSE kept
    ELSE [items |-> Append(kept.items, res), out |-> Append(kept.out, res)]

\* the inner loop of '/' select over the results of the right operand
RECURSIVE PathResults(_, _)
PathResults(results, kept) ==
    IF results = <<>> THEN kept
    ELSE IF Head(results).kind = "raise"
    THEN [kept EXCEPT !.out = Append(@, Head(results))]
    ELSE PathResults(Tail(results), PathResult(Head(results), kept))

\* the test of '[' select with the position never compared: the boolean
\* value of the predicate decides alone
PredicateTestBoolean(position, predicate) ==
    BooleanValueOf(predicate)

\* the test of '[' select on the list the predicate yielded for the item at
\* this position: "True", "False", or the error code raised
PredicateTest(position, predicate) ==
    IF Len(predicate) = 1 /\ IsNumeric(predicate[1])
    THEN IF NumericEquals(position, predicate[1].value) THEN "True" ELSE "False"
    ELSE BooleanValueOf(predicate)

\* the body of the loop of '[' select: what was yielded after this item
PredicateResult(item, test, out) ==
    IF test = "True" THEN Append(out, item)
    ELSE IF test = "False" THEN out
    ELSE Append(out, RaiseItem(<<test>>))

\* what '|' select yields when every union yields the results of its
\* operands as they come
UnionResultsUnsorted(self, context, both) == both

\* what '|' select yields, both being what its operands yielded one after
\* the other: as they came when the union does not cut and sort, else the
\* set of them through context.iter_results
UnionResults(self, context, both) ==
    IF self.cut_and_sort = "unset" THEN <<RaiseItem(<<"AttributeError">>)>>
    ELSE IF self.cut_and_sort = "False" THEN both
    ELSE IF Raised(both) THEN <<both[Len(both)]>>
    ELSE IterResults(context, PySet(both))

RECURSIVE Select(_, _)
RECURSIVE SelectWith(_, _, _)
RECURSIVE PathLoop(_, _, _, _, _)
RECURSIVE PredicateLoop(_, _, _, _, _)
RECURSIVE AttributeLoop(_, _, _, _)

\* '|' select: both operands are selected on copies of the context
UnionSelect(self, context) ==
    UnionResults(self, context, Cut(Cut(Select(self.items[1], context))
                                    \o Select(self.items[2], context)))

\* the outer loop of '/' select: lefts is what iter_selector goes through
PathLoop(self, context, lefts, i, kept) ==
    IF Raised(kept.out) \/ i > Len(lefts) THEN kept.out
    ELSE IF lefts[i].kind = "raise" THEN Append(kept.out, lefts[i])
    ELSE IF ~is_xpath_node(lefts[i])
    THEN Append(kept.out, RaiseItem(<<"XPTY0019">>))
    ELSE PathLoop(self, context, lefts, i + 1,
                  PathResults(Select(self.items[2],
                                     Moved(context, lefts[i], i, Len(lefts))),
                              kept))

\* '/' select: the document for a lone '/', the operand from the root for a
\* leading '/', and the right operand on every item of the left one
PathSelect(self, context) ==
    IF Len(self.items) = 0
    THEN IF is_document_node(Root(context)) THEN <<Root(context)>> ELSE <<>>
    ELSE IF Len(self.items) = 1
    THEN IF is_document_node(Root(context)) \/ context.item = Root(context)
         THEN Select(self.items[1], [context EXCEPT !.item = NoItem])
         ELSE <<>>
    ELSE PathLoop(self, context, Select(self.items[1], context), 1,
                  [items |-> <<>>, out |-> <<>>])

\* the loop of '[' select: step is what the selector goes through
PredicateLoop(self, context, step, i, out) ==
    IF Raised(out) \/ i > Len(step) THEN out
    ELSE IF step[i].kind = "raise" THEN Append(out, step[i])
    ELSE PredicateLoop(self, context, step, i + 1,
             PredicateResult(step[i],
                 PredicateTest(i, Cut(Select(self.items[2],
                                             Moved(context, step[i], i, Len(step))))),
                 out))

\* '[' select, for a step that is not an axis: the selector is
\* context.iter_selector(self[0].select)
PredicateSelect(self, context) ==
    PredicateLoop(self, context, Select(self.items[1], context), 1, <<>>)

\* the loop of '@' select over the attributes of the item
AttributeLoop(self, context, attributes, i) ==
    IF i > Len(attributes) THEN <<>>
    ELSE Cut(Select(self.items[1],
                    [context EXCEPT !.item = attributes[i], !.axis = "attribute"])
             \o AttributeLoop(self, context, attributes, i + 1))

\* '@' select: the operand selected on each attribute of the item
AttributeSelect(self, context) ==
    AttributeLoop(self, context, IterAttributes(context), 1)

\* the select method f of the token class of `self`
SelectWith(f, self, context) ==
    CASE f = "name.select" -> NameSelect(self, context)
      [] f = "self.select" -> SelfSelect(context)
      [] f = "parent.select" -> ParentSelect(context)
      [] f = "paren.select" -> Select(self.items[1], context)
      [] f = "attribute.select" -> AttributeSelect(self, context)
      [] f = "union.select" -> UnionSelect(self, context)
      [] f = "predicate.select" -> PredicateSelect(self, context)
      [] f = "path.select" -> PathSelect(self, context)
      [] OTHER -> DefaultSelect(Evaluate(self))

\* self.select(context)
Select(self, context) ==
    SelectWith(self.select, self, context)

\* the select methods translated here
SelectMethods ==
    {"name.select", "self.select", "parent.select", "paren.select",
     "attribute.select", "union.select", "predicate.select", "path.select"}

\* the trees select() is translated for: every token has one of the select
\* methods above, or none of its own and a value that does not depend on
\* the context; the step of a predicate is not an axis
RECURSIVE Selectable(_)
SelectableWith(f, self) ==
    IF f \in SelectMethods
    THEN /\ \A i \in 1..Len(self.items) : Selectable(self.items[i])
         /\ self.symbol = "[" => self.items[1].label # "axis"
    ELSE f = "Token.select" /\ Evaluate(self).raised = ""
Selectable(self) == SelectableWith(self.select, self)

-----------------------------------------------------------------------------
(* The string functions and lang(): the evaluate methods, given the values *)
(* get_argument() handed them.  A number is a record [t, twice]: t is      *)
(* "int" or "float" for a finite number whose double is twice, "nan",      *)
(* "inf" or "-inf" for the other floats, and "str" for a value that is no  *)
(* number at all.                                                          *)

IntNum(n) == [t |-> "int", twice |-> 2 * n]
FloatNum(twice) == [t |-> "float", twice |-> twice]
OtherNum(t) == [t |-> t, twice |-> 0]
\* math.isnan(x), math.isinf(x) and x <= 0 raise TypeError for a str
IsNumber(x) == x.t # "str"
IsNan(x) == x.t = "nan"
IsInf(x) == x.t \in {"inf", "-inf"}
NotPositive(x) == x.t = "-inf" \/ (x.t \in {"int", "float"} /\ x.twice <= 0)

\* int(round(x)) of Python 3 for a finite number: a tie goes to the even
\* neighbour
PyRound(x) ==
    IF x.twice % 2 = 0 THEN x.twice \div 2
    ELSE LET below == (x.twice - 1) \div 2
         IN  IF below % 2 = 0 THEN below ELSE below + 1

\* item[lo:hi] for lo >= 0 and hi >= 0
Slice(item, lo, hi) ==
    LET end == IF hi < Len(item) THEN hi ELSE Len(item)
    IN  IF lo >= end THEN <<>> ELSE SubSeq(item, lo + 1, end)

\* 'string-length' evaluate: len(arg)
StringLength(arg) == Returns(IntValue(Len(arg)))

\* a start that is left as the 1-based position it was given as
SubstringStartOneBased(start) == PyRound(start)

\* start = int(round(start)) - 1
SubstringStart(start) == PyRound(start) - 1

NonNegative(n) == IF n > 0 THEN n ELSE 0

\* 'substring' evaluate on the arguments args = <<item, start>> or
\* <<item, start, length>>
Substring(args) ==
    LET item == args[1]
        start == args[2]
        length == args[3]
    IN  IF ~IsNumber(start) THEN Raises("XPTY0004")
        ELSE IF IsNan(start) \/ IsInf(start) THEN Returns(StrValue(<<>>))
        ELSE IF Len(args) = 2
        THEN Returns(StrValue(Slice(item, NonNegative(SubstringStart(start)), Len(item))))
        ELSE IF ~IsNumber(length) THEN Raises("XPTY0004")
        ELSE IF IsNan(length) \/ NotPositive(length) THEN Returns(StrValue(<<>>))
        ELSE IF IsInf(length)
        THEN Returns(StrValue(Slice(item, NonNegative(SubstringStart(start)), Len(item))))
        ELSE Returns(StrValue(Slice(item, NonNegative(SubstringStart(start)),
                     NonNegative(SubstringStart(start) + PyRound(length)))))

CharsOf(s) == {s[i] : i \in 1..Len(s)}
\* the characters a translation table deletes map to the empty string
Deleted == <<>>

\* a table whose third argument deletes nothing
MakeTransKeepAll(x, y, z) ==
    [c \in CharsOf(x) |->
        <<y[CHOOSE i \in 1..Len(x) : x[i] = c /\ \A j \in (i + 1)..Len(x) : x[j] # c]>>]

\* str.maketrans(x, y, z), len(x) = len(y): a dict filled in the order of
\* x, so that the last x[i] = c decides, and then with None for each c of z
MakeTrans(x, y, z) ==
    [c \in CharsOf(x) \cup CharsOf(z) |->
        IF c \in CharsOf(z) THEN Deleted
        ELSE <<y[CHOOSE i \in 1..Len(x) : x[i] = c /\ \A j \in (i + 1)..Len(x) : x[j] # c]>>]

\* str.translate(table)
RECURSIVE StrTranslate(_, _)
StrTranslate(arg, table) ==
    IF arg = <<>> THEN <<>>
    ELSE (IF Head(arg) \in DOMAIN table THEN table[Head(arg)] ELSE <<Head(arg)>>)
         \o StrTranslate(Tail(arg), table)

\* 'translate' evaluate
Translate(arg, map_string, trans_string) ==
    IF Len(map_string) = Len(trans_string)
    THEN Returns(StrValue(StrTranslate(arg, MakeTrans(map_string, trans_string, <<>>))))
    ELSE IF Len(map_string) > Len(trans_string)
    THEN Returns(StrValue(StrTranslate(arg,
            MakeTrans(SubSeq(map_string, 1, Len(trans_string)), trans_string,
                      SubSeq(map_string, Len(trans_string) + 1, Len(map_string))))))
    ELSE Returns(StrValue(StrTranslate(arg,
            MakeTrans(map_string, SubSeq(trans_string, 1, Len(map_string)), <<>>))))

Uppercase == <<"A", "B", "E", "H", "N", "S", "T", "U", "W", "Z">>
Lowercase == <<"a", "b", "e", "h", "n", "s", "t", "u", "w", "z">>
\* str.lower()
Lower(s) ==
    [i \in 1..Len(s) |->
        IF \E k \in 1..Len(Uppercase) : Uppercase[k] = s[i]
        THEN Lowercase[CHOOSE k \in 1..Len(Uppercase) : Uppercase[k] = s[i]]
        ELSE s[i]]

\* the key of xml:lang in Element.attrib
XML_LANG == <<"{http://www.w3.org/XML/1998/namespace}lang">>

\* XML_LANG in elem.attrib, elem.attrib[XML_LANG]
HasLang(context, elem) ==
    \E i \in 1..Len(context.nodes) :
        is_attribute_node(context.nodes[i], XML_LANG) /\ context.nodes[i].owner = elem.id
LangOf(context, elem) ==
    context.nodes[CHOOSE i \in 1..Len(context.nodes) :
        is_attribute_node(context.nodes[i], XML_LANG)
        /\ context.nodes[i].owner = elem.id].value.s

\* the ancestors of the element, the parent first
RECURSIVE Ancestors(_, _)
Ancestors(context, elem) ==
    IF GetParent(context, elem) = NoItem THEN <<>>
    ELSE <<GetParent(context, elem)>> \o Ancestors(context, GetParent(context, elem))

\* context.iter_ancestor(): a name the interface of the context does not
\* list (it lists iter_ancestors(axis)).  A context that has the method
\* yields the ancestors; on one that has not, the call raises.
IterAncestor(context, has_method) ==
    IF has_method THEN Ancestors(context, context.item)
    ELSE <<RaiseItem(<<"AttributeError">>)>>

\* the first element of the sequence that has an xml:lang, if any
WithLang(context, elems) == SelectSeq(elems, LAMBDA e : e.kind = "raise" \/ HasLang(context, e))

\* lang.split('-')
RECURSIVE Split(_, _)
Split(s, sep) ==
    IF ~\E i \in 1..Len(s) : s[i] = sep THEN <<s>>
    ELSE LET i == CHOOSE k \in 1..Len(s) : s[k] = sep /\ \A j \in 1..(k - 1) : s[j] # sep
         IN  <<SubSeq(s, 1, i - 1)>> \o Split(SubSeq(s, i + 1, Len(s)), sep)

\* the last three statements of 'lang' evaluate: lang, _ = lang.split('-')
\* unpacks two parts and no other number of them
LangMatches(lang, code) ==
    IF ~\E i \in 1..Len(lang) : lang[i] = "-" THEN Returns(BoolValue(Lower(lang) = Lower(code)))
    ELSE IF Len(Split(lang, "-")) # 2 THEN Raises("ValueError")
    ELSE Returns(BoolValue(Lower(Split(lang, "-")[1]) = Lower(code)))

\* 'lang' evaluate; code is what self[0].evaluate() gives
Lang(context, has_iter_ancestor, code) ==
    IF context = NoContext THEN Raises("MissingContextError")
    ELSE IF ~is_etree_element(context.item) THEN Returns(BoolValue(FALSE))
    ELSE IF HasLang(context, context.item)
    THEN LangMatches(LStrip(RStrip(LangOf(context, context.item))), code)
    ELSE LET found == WithLang(context, IterAncestor(context, has_iter_ancestor))
         IN  IF found = <<>> THEN Returns(BoolValue(FALSE))
             ELSE IF found[1].kind = "raise" THEN Raises("AttributeError")
             ELSE LangMatches(LangOf(context, found[1]), code)

-----------------------------------------------------------------------------
(* Registry specification: register / unregister / duplicate calls on a    *)
(* parser class that starts with an empty symbol table.                    *)

\* the most registry calls a behaviour makes
MaxRegCalls == 3

\* SYMBOLS of the parser class the registry specification works on
RegAlphabet == {"+", "x y", "x\ty"}
\* the symbols the calls are made with
RegOffered == {"+", "x y", "x\ty", "zz", "p\nq", "+ "}
\* the symbols duplicate() copies from
RegDupFrom == {"+", "zz"}

\* the keyword arguments the calls are made with
KwOptions == <<
    [label |-> "operator", lbp |-> 1, rbp |-> 1, led |-> Fn("infix.led", 1, 0, 0)],
    [label |-> "prefix operator", lbp |-> 2, rbp |-> 2, nud |-> Fn("prefix.nud", 2, 0, 0)],
    [label |-> "function", lbp |-> 0, rbp |-> 3, pattern |-> Pat("function", "+")],
    [bp |-> 3] >>
KwDupOptions == {2, 4}

RegCall(op, symbol, new_symbol, kw, err) ==
    [op |-> op, symbol |-> symbol, new_symbol |-> new_symbol, kw |-> kw, err |-> err]

\* no function call is evaluated
NoCall == [f |-> "", args |-> <<>>, context |-> NoContext, has_iter_ancestor |-> FALSE]
NotReturned == [raised |-> "not called", value |-> None]

\* a parser instance nobody parses with: the state Parser.__init__ leaves
Idle ==
    /\ input = Str(<<>>) /\ pc = "idle" /\ source = <<>> /\ tokens = <<>>
    /\ match = NoMatch /\ token = NoToken /\ next_token = NoToken
    /\ result = NoResult
    /\ ctx = NoContext /\ selected = NotSelected
    /\ fn_call = NoCall /\ returned = NotReturned

RegInit ==
    /\ symbol_table = [s \in {} |-> TokenDefaults]
    /\ reg_last = RegCall("none", "", "", 0, "")
    /\ reg_calls = 0
    /\ Idle

DoRegister ==
    /\ reg_calls < MaxRegCalls
    /\ \E symbol \in RegOffered, kw \in DOMAIN KwOptions :
         LET out == Register(symbol_table, RegAlphabet, symbol, KwOptions[kw])
         IN  /\ symbol_table' = out.table
             /\ reg_last' = RegCall("register", symbol, "", kw, out.err)
    /\ reg_calls' = reg_calls + 1
    /\ UNCHANGED <<parvars, selvars, funvars>>

DoUnregister ==
    /\ reg_calls < MaxRegCalls
    /\ \E symbol \in RegOffered :
         LET out == Unregister(symbol_table, symbol)
         IN  /\ symbol_table' = out.table
             /\ reg_last' = RegCall("unregister", symbol, "", 0, out.err)
    /\ reg_calls' = reg_calls + 1
    /\ UNCHANGED <<parvars, selvars, funvars>>

DoDuplicate ==
    /\ reg_calls < MaxRegCalls
    /\ \E symbol \in RegDupFrom, new_symbol \in RegOffered, kw \in KwDupOptions :
         LET out == Duplicate(symbol_table, RegAlphabet, symbol, new_symbol, KwOptions[kw])
         IN  /\ symbol_table' = out.table
             /\ reg_last' = RegCall("duplicate", symbol, new_symbol, kw, out.err)
    /\ reg_calls' = reg_calls + 1
    /\ UNCHANGED <<parvars, selvars, funvars>>

RegNext == DoRegister \/ DoUnregister \/ DoDuplicate

RegSpec == RegInit /\ [][RegNext]_vars

-----------------------------------------------------------------------------
(* Parser specification: one XPath1Parser instance that is given a source  *)
(* and either parses it (and then parses the source representation of the  *)
(* result) or is driven token by token with advance().                     *)

\* the most lexemes a generated source is made of
MaxLex == 3

Lexemes == {<<"1">>, <<"a">>, <<" ">>, <<"+">>, <<"*">>, <<"/">>,
            <<"(">>, <<")">>, <<"[">>, <<"]">>, <<"@">>, <<"#">>}

\* every concatenation of n lexemes
RECURSIVE Concatenations(_)
Concatenations(n) ==
    IF n = 0 THEN {<<>>}
    ELSE {s \o l : s \in Concatenations(n - 1), l \in Lexemes}

\* the binary operators of XPath 1.0 and the operand triples they are put between
BinaryOperators == {"or", "and", "=", "!=", "<", ">", "<=", ">=",
                    "+", "-", "*", "div", "mod"}
Operands == {<< <<"1">>, <<"2">>, <<"3">> >>, << <<"a">>, <<"b">>, <<"c">> >>}

\* the source `x p y q z`
Chain(o, p, q) ==
    o[1] \o <<" ">> \o SPELL[p] \o <<" ">> \o o[2] \o <<" ">> \o SPELL[q]
         \o <<" ">> \o o[3]

\* the source `(x p y) q z`
ParenChain(o, p, q) ==
    <<"(">> \o o[1] \o <<" ">> \o SPELL[p] \o <<" ">> \o o[2] \o <<")", " ">> \o SPELL[q]
          \o <<" ">> \o o[3]

\* sources that the generated ones do not reach
Samples == {
    <<"1", " ", "-", " ", "-", "2">>,
    <<"-", "(", "1", ")">>,
    <<"a", "-", "1">>,
    <<"1", "-">>,
    <<"1", ".">>,
    <<".">>,
    <<".", ".">>,
    <<"a", "/", ".">>,
    <<"(", ".", ")">>,
    <<"a", "[", "1", "]">>,
    <<"t", "r", "u", "e", "(", ")">>,
    <<"t", "r", "u", "e", "(">>,
    <<"c", "o", "n", "c", "a", "t", "(", "1", ",", "2", ")">>,
    <<"c", "o", "n", "c", "a", "t", "(", ")">>,
    <<"s", "u", "b", "s", "t", "r", "i", "n", "g", "(", "a", ",", "1", ")">>,
    <<"s", "u", "b", "s", "t", "r", "i", "n", "g", "(", "a", ")">>,
    <<"c", "o", "u", "n", "t", "(", "a">>,
    <<"c", "o", "u", "n", "t", "(", "a", ",", "1", ")">>,
    <<"'", "a", "'", "'", "b", "'">>,
    <<"\"", "a", "\"">>,
    <<"'", "a">>,
    <<"1", "e", "1">>,
    <<".", "5", ".", "1">>,
    <<"1", ".", "5">>,
    <<"x", "m", "l", ":", "a">>,
    <<"p", ":", "a">>,
    <<"x", "m", "l", " ", ":", " ", "a">>,
    <<"x", "m", "l", ":", "a", ":", "b">>,
    <<"$", "a">>,
    <<"$">>,
    <<"$", "x", "m", "l", ":", "a">>,
    <<"@", "a">>,
    <<"@">>,
    <<"c", "h", "i", "l", "d", ":", ":", "a">>,
    <<"c", "h", "i", "l", "d", ":", ":">>,
    <<"c", "h", "i", "l", "d", ":", ":", "1">>,
    <<"a", ":", ":", "b">>,
    <<"a", "/", "b">>,
    <<"/">>,
    <<"/", "/", "a">>,
    <<"a", "/", "/">>,
    <<"a", " ", "|", " ", "b">>,
    <<"-", "1">>,
    <<"-", " ", "-", " ", "1">>,
    <<"1", " ", "=", " ", "2", " ", "=", " ", "3">>,
    <<"{", "a", "}", "b">>,
    <<"\n", "\t", " ">>,
    <<"a", " ", "o", "r">>,
    <<"/", "o", "r">>,
    <<"a", "(", "1", ")">>,
    <<"1", " ", "1">>,
    <<"(", "1", ")">>,
    <<"(", " ", ")">>,
    <<"a", "[", "1", "]", "[", "2", "]">>,
    <<"1", "(">>,
    <<"s", "t", "r", "i", "n", "g", "-", "l", "e", "n", "g", "t", "h", "(", "a", ")">>,
    <<"n", "a", "m", "e", " ", "(", ")">> }

\* the symbols registered with XPath1Parser.function
FunctionSymbols == {s \in DOMAIN XPathTable : XPathTable[s].nud.f = "function.nud"}

\* the argument lists of the calls: the text of each argument between the
\* commas, an empty text where the source has nothing in that place
ArgLists == {<<>>, <<"1">>, <<"1", "1">>, <<"1", "1", "1">>, <<"1", "1", "1", "1">>,
             <<"", "1">>, <<"1", "">>}

\* ','.join(args)
RECURSIVE Commas(_)
Commas(args) ==
    IF args = <<>> THEN <<>>
    ELSE IF Len(args) = 1 THEN (IF args[1] = "" THEN <<>> ELSE <<args[1]>>)
    ELSE (IF args[1] = "" THEN <<>> ELSE <<args[1]>>) \o <<",">> \o Commas(Tail(args))

\* the source `f(arg, ..., arg)`
CallSource(f, args) == SPELL[f] \o <<"(">> \o Commas(args) \o <<")">>

Calls == {CallSource(f, args) : f \in FunctionSymbols, args \in ArgLists}

\* prefixed names `prefix:local` with nothing or one whitespace character
\* before or after the colon: <<prefix, before, after, local>>
QNameCases ==
    {<<prefix, gap[1], gap[2], local>> :
        prefix \in {<<"x", "m", "l">>, <<"p">>},
        gap \in {<<b, <<>>>> : b \in {<<>>} \cup {<<c>> : c \in Spaces}}
                 \cup {<< <<>>, a>> : a \in {<<c>> : c \in Spaces}},
        local \in {<<"a">>, <<"*">>, <<"o", "r">>, <<"1">>,
                   <<"t", "r", "u", "e", "(", ")">>}}
QNameSource(q) == q[1] \o q[2] \o <<":">> \o q[3] \o q[4]

\* what a path operator is followed by: one text for each kind of token
Followers ==
    {<<"1">>, <<"'", "s", "'">>, <<"1", "e", "1">>, <<"1", ".", "5">>, <<"b">>,
     <<"*">>, <<"@", "b">>, <<".", ".">>, <<".">>, <<"{">>,
     SPELL["child"] \o SPELL["::"] \o <<"b">>, SPELL["text"] \o <<"(", ")">>,
     SPELL["and"], SPELL["or"], SPELL["div"], SPELL["mod"],
     SPELL["name"] \o <<"(", ")">>, SPELL["count"] \o <<"(", "b", ")">>,
     <<"(", "b", ")">>, <<"+", "1">>, <<"-", "1">>, <<"$", "b">>, <<")">>, <<"]">>,
     <<",">>, <<"|", "b">>, <<"=", "1">>, <<"[", "1", "]">>, <<"#">>, <<>>}

\* a path operator after the step `a` (led position) or first (nud position)
PathCases ==
    {<<left, op, follower>> :
        left \in {<<"a">>, <<>>}, op \in {"/", "//"}, follower \in Followers}
PathSource(c) == c[1] \o SPELL[c[2]] \o <<" ">> \o c[3]

\* `a div b` and `a mod b` for small integers, the negative ones written
\* with a minus sign: <<a, operator, b>>
ArithCases == {<<a, op, b>> : a \in -6..6, op \in {"div", "mod"}, b \in -6..6}
ArithSource(c) == IntStr(c[1]) \o <<" ">> \o SPELL[c[2]] \o <<" ">> \o IntStr(c[3])

\* the expressions selected on: predicates `step[p]`, chains of unions with
\* and without parentheses, and paths `left/right`
Steps == {<<"a">>, <<"b">>, <<"(", "a", "|", "c", ")">>, <<"a", "/", "b">>}
Predicates ==
    {<<"0">>, <<"1">>, <<"2">>, <<"3">>, <<"4">>, <<"-", "1">>, <<"1", "+", "1">>,
     <<"4", " ", "d", "i", "v", " ", "2">>, <<"3", " ", "d", "i", "v", " ", "2">>,
     <<"1", " ", "d", "i", "v", " ", "0">>, <<"0", " ", "d", "i", "v", " ", "0">>,
     <<"2", ".", "0">>, <<"2", ".", "5">>, <<"2", "e", "0">>, <<"2", "=", "2">>,
     <<"2", "=", "3">>, <<"'", "'">>, <<"'", "x", "'">>,
     <<"t", "r", "u", "e", "(", ")">>, <<"f", "a", "l", "s", "e", "(", ")">>,
     <<"b">>, <<"c">>, <<"@", "i">>, <<"b", "|", "c">>, <<"b", "[", "2", "]">>,
     <<".">>, <<".", ".">>}
PredicateSource(step, p) == step \o <<"[">> \o p \o <<"]">>
Operand == {<<"a">>, <<"b">>, <<"c">>}
UnionSources ==
    {x \o <<" ", "|", " ">> \o y : x \in Operand, y \in Operand}
    \cup {x \o <<" ", "|", " ">> \o y \o <<" ", "|", " ">> \o z :
            x \in Operand, y \in Operand, z \in Operand}
    \cup {<<"(">> \o x \o <<" ", "|", " ">> \o y \o <<")", " ", "|", " ">> \o z :
            x \in Operand, y \in Operand, z \in Operand}
    \cup {x \o <<" ", "|", " ", "(">> \o y \o <<" ", "|", " ">> \o z \o <<")">> :
            x \in Operand, y \in Operand, z \in Operand}
    \cup {<<"c", "|", "b", "|", "a", "|", "b">>, <<"a", "/", "b", "|", "b", "|", "a">>,
          <<"(", "c", "|", "b", "|", "a", ")">>, <<"a", "[", "c", "|", "b", "|", "a", "]">>}
Lefts == {<<"a">>, <<"b">>, <<".">>, <<"1">>, <<"a", "/", "b">>, <<"a", "[", "2", "]">>,
          <<"/", "r", "o", "o", "t">>, <<"/", "r", "o", "o", "t", "/", "a">>}
Rights == {<<"a">>, <<"b">>, <<".">>, <<".", ".">>, <<"@", "i">>, <<"1">>,
           <<"a", "[", "2", "]">>, <<"b", "[", "1", "]">>, <<".", ".", "/", "a">>,
           <<".", ".", "/", "@", "i">>, <<"b", "/", ".", ".", "/", "@", "i">>}
SelectSources ==
    {PredicateSource(step, p) : step \in Steps, p \in Predicates}
    \cup UnionSources
    \cup {left \o <<"/">> \o right : left \in Lefts, right \in Rights}

Sources ==
    UNION {Concatenations(n) : n \in 0..MaxLex}
    \cup SelectSources
    \cup {Chain(o, p, q) : o \in Operands, p \in BinaryOperators, q \in BinaryOperators}
    \cup {ParenChain(o, p, q) : o \in Operands, p \in OPERATORS_MAP, q \in OPERATORS_MAP}
    \cup Samples
    \cup Calls
    \cup {QNameSource(q) : q \in QNameCases}
    \cup {PathSource(c) : c \in PathCases}
    \cup {ArithSource(c) : c \in ArithCases}

Inputs == {Str(s) : s \in Sources} \cup {NotStr("int"), NotStr("NoneType")}

\* the fields of the instance, as the operators take them
Instance ==
    [symbol_table |-> symbol_table, source |-> source, tokens |-> tokens,
     match |-> match, token |-> token, next_token |-> next_token,
     err |-> NoError, returns |-> {}]

\* what a call left: the exception it raised, the root Parser.parse returned,
\* the value of the static evaluation and the returns of expression()
Result(err, root, value, returns) ==
    [err |-> err, root |-> root, value |-> value, returns |-> returns]

Init ==
    /\ symbol_table = XPathTable
    /\ reg_last = RegCall("none", "", "", 0, "")
    /\ reg_calls = 0
    /\ input \in Inputs
    /\ pc = "ready"
    /\ source = <<>> /\ tokens = <<>>
    /\ match = NoMatch /\ token = NoToken /\ next_token = NoToken
    /\ result = NoResult
    /\ ctx = NoContext /\ selected = NotSelected
    /\ fn_call = NoCall /\ returned = NotReturned

\* the instance fields after a call
Becomes(parser) ==
    /\ source' = parser.source
    /\ tokens' = parser.tokens
    /\ match' = parser.match
    /\ token' = parser.token
    /\ next_token' = parser.next_token

\* parser.parse(input)
ParseCall ==
    /\ pc = "ready"
    /\ \E out \in XPathParse(Instance, input) :
         /\ Becomes(out.parser)
         /\ result' = Result(out.parser.err, out.token, out.value, out.parser.returns)
    /\ pc' = "parsed"
    /\ UNCHANGED <<regvars, input, selvars, funvars>>

\* the arguments of the later calls: a source that parses, one that fails in
\* a nud at the end of the source, one that fails in advance() on an unknown
\* character, one that fails in the led of '[', one that leaves a token
\* unread, the empty source and an argument that is no str
AgainInputs ==
    {Str(<<"1", " ", "+", " ", "2">>), Str(<<"1", " ", "+">>), Str(<<"1", "#">>),
     Str(<<"a", "[", "]">>), Str(<<"1", " ", "2">>), Str(<<>>), NotStr("int")}

\* what the same instance is given after a call: the source representation
\* of the tree just returned ("reparsed"), or any of the later arguments
\* ("again"), after a call that returned as after one that raised
SecondInputs(kind) ==
    IF kind = "again" THEN AgainInputs
    ELSE IF pc = "parsed" /\ result.err = NoError THEN {Str(SourceOf(result.root))}
    ELSE {}

\* another parser.parse() on the same instance
ParseSource ==
    /\ pc \in {"parsed", "again"}
    /\ \E kind \in {"reparsed", "again"} :
         \E arg \in SecondInputs(kind) :
            \E out \in XPathParse(Instance, arg) :
               /\ Becomes(out.parser)
               /\ result' = Result(out.parser.err, out.token, out.value,
                                   out.parser.returns)
               /\ input' = arg
               /\ pc' = kind
    /\ UNCHANGED <<regvars, selvars, funvars>>

\* the first statements of parse(): the iterator over the matches is taken
\* and the source is kept, for a caller that drives advance() itself
Tokenize ==
    /\ pc = "ready"
    /\ input.type = "str"
    /\ tokens' = FindIter(Tokenizer(Instance), input.chars, 1)
    /\ source' = input.chars
    /\ pc' = "scanning"
    /\ UNCHANGED <<regvars, input, match, token, next_token, result, selvars, funvars>>

\* parser.advance()
DoAdvance ==
    /\ pc = "scanning"
    /\ \E parser \in {Advance(Instance, {})} :
         /\ Becomes(parser)
         /\ result' = Result(parser.err, NoToken, None, {})
         /\ pc' = IF Failed(parser) THEN "stopped" ELSE "scanning"
    /\ UNCHANGED <<regvars, input, selvars, funvars>>

\* parser.token.nud(), called by the caller that drives advance()
DoNud ==
    /\ pc = "scanning"
    /\ token # NoToken
    /\ \E called \in {Nud(Instance, token)} :
         /\ Becomes(called.parser)
         /\ result' = Result(called.parser.err,
                             IF Failed(called.parser) THEN NoToken ELSE called.token,
                             None, called.parser.returns)
    /\ pc' = "nud"
    /\ UNCHANGED <<regvars, input, selvars, funvars>>

\* root.select(context) on the tree parse() returned
DoSelect ==
    /\ pc = "parsed"
    /\ result.err = NoError
    /\ Selectable(result.root)
    /\ \E context \in Contexts :
         /\ ctx' = context
         /\ selected' = Cut(Select(result.root, context))
    /\ pc' = "selected"
    /\ UNCHANGED <<regvars, input, source, tokens, match, token, next_token, result,
                   funvars>>

\* the symbols given to iter(): none, or the symbols to keep
IterFilters == {{}, {"(integer)"}, {"+", "/", "(name)"}}

\* list(root.iter(*symbols)) on the tree parse() returned
DoIter ==
    /\ pc = "parsed"
    /\ result.err = NoError
    /\ \E symbols \in IterFilters :
         /\ fn_call' = [NoCall EXCEPT !.f = "iter", !.args = <<symbols>>]
         /\ returned' = Returns(TokenIter(result.root, symbols, <<>>))
    /\ pc' = "iterated"
    /\ UNCHANGED <<regvars, input, source, tokens, match, token, next_token, result,
                   selvars>>

Next ==
    ParseCall \/ ParseSource \/ Tokenize \/ DoAdvance \/ DoNud \/ DoSelect \/ DoIter

Spec == Init /\ [][Next]_vars

-----------------------------------------------------------------------------
(* Raw chunks: a caller drives advance() on a source and then calls        *)
(* advance_until(), as the nud of '{' does.                                *)

MaxUntil == 4

UntilLexemes == {<<"{">>, <<"}">>, <<"a">>, <<" ", " ">>, <<"'", "}", "'">>, <<"#">>}

RECURSIVE UntilSources(_)
\* every concatenation of at most n of the lexemes
UntilSources(n) ==
    IF n = 0 THEN {<<>>}
    ELSE UntilSources(n - 1) \cup {s \o l : s \in UntilSources(n - 1), l \in UntilLexemes}

\* the stop symbols given: none, '}', or '}' and '{'
StopSymbols == {{}, {"}"}, {"}", "{"}}

UntilInit ==
    /\ symbol_table = XPathTable
    /\ reg_last = RegCall("none", "", "", 0, "")
    /\ reg_calls = 0
    /\ input \in {Str(s) : s \in UntilSources(MaxUntil)}
    /\ pc = "ready"
    /\ source = <<>> /\ tokens = <<>>
    /\ match = NoMatch /\ token = NoToken /\ next_token = NoToken
    /\ result = NoResult
    /\ ctx = NoContext /\ selected = NotSelected
    /\ fn_call = NoCall /\ returned = NotReturned

\* parser.advance_until(*stop_symbols)
DoAdvanceUntil ==
    /\ pc = "scanning"
    /\ \E stop_symbols \in StopSymbols :
         \E out \in {AdvanceUntil(Instance, stop_symbols)} :
            /\ Becomes(out.parser)
            /\ result' = Result(out.parser.err, NoToken, None, {})
            /\ fn_call' = [NoCall EXCEPT !.f = "advance_until", !.args = <<stop_symbols>>]
            /\ returned' = IF Failed(out.parser) THEN Raises(out.parser.err.msg)
                           ELSE Returns(StrValue(out.chunk))
    /\ pc' = "until"
    /\ UNCHANGED <<regvars, input, selvars>>

UntilNext == Tokenize \/ DoAdvance \/ DoAdvanceUntil

UntilSpec == UntilInit /\ [][UntilNext]_vars

-----------------------------------------------------------------------------
(* Claims about parsing, checked under Spec                                *)

Called == pc \in {"parsed", "reparsed"}

\* C1: after every call to parse(source), whether it returned a tree or
\* raised, tokens is empty and match, token and next_token are None.
C1_CursorCleared ==
    Called => /\ tokens = <<>>
              /\ match = NoMatch
              /\ token = NoToken
              /\ next_token = NoToken

\* a call that raised inside a nud, after the cursor had moved
C1_Witness ==
    /\ pc = "parsed"
    /\ result.err.msg = "invalid attribute specification"
    /\ source # <<>>
    /\ next_token = NoToken

\* C2: whenever expression(rbp) returns normally, next_token.lbp <= rbp.
C2_LookaheadBound ==
    \A r \in result.returns : r[2] <= r[1]

\* an expression(40) that returned in front of an operator of lbp 40
C2_Witness ==
    /\ pc = "parsed"
    /\ result.err = NoError
    /\ <<40, 40>> \in result.returns

\* the trees the claims speak of
OperandTree(chars) ==
    IF chars[1] \in Digits THEN <<"(integer)", IntValue(ParseInt(chars)), <<>>>>
    ELSE <<"(name)", StrValue(chars), <<>>>>
Node(symbol, left, right) == <<symbol, StrValue(SPELL[symbol]), <<left, right>>>>
\* (p x (q y z))
RightNested(o, p, q) ==
    Node(p, OperandTree(o[1]), Node(q, OperandTree(o[2]), OperandTree(o[3])))
\* (p (q x y) z)
LeftNested(o, p, q) ==
    Node(p, Node(q, OperandTree(o[1]), OperandTree(o[2])), OperandTree(o[3]))

PrecedenceOperators == BinaryOperators \ {"-"}
Digits123 == << <<"1">>, <<"2">>, <<"3">> >>

\* C3: the left binding powers are or 20 < and 25 < comparisons 30 < '+' 40
\* < '*', div, mod 45 < '|' 50 < '/', '//' 75 < '[' 80; for binary operators
\* p, q with lbp(p) < lbp(q), `x p y q z` parses as (p x (q y z)) and
\* `x q y p z` as (p (q x y) z); `1 + 2 * 3` evaluates to 7.
C3_Precedence ==
    /\ symbol_table["or"].lbp = 20
    /\ symbol_table["and"].lbp = 25
    /\ \A c \in OPERATORS_MAP : symbol_table[c].lbp = 30
    /\ symbol_table["+"].lbp = 40
    /\ \A m \in {"*", "div", "mod"} : symbol_table[m].lbp = 45
    /\ symbol_table["|"].lbp = 50
    /\ \A m \in {"/", "//"} : symbol_table[m].lbp = 75
    /\ symbol_table["["].lbp = 80
    /\ \A o \in Operands, p \in PrecedenceOperators, q \in PrecedenceOperators :
          pc = "parsed" /\ symbol_table[p].lbp < symbol_table[q].lbp =>
            /\ input = Str(Chain(o, p, q)) => Tree(result.root) = RightNested(o, p, q)
            /\ input = Str(Chain(o, q, p)) => Tree(result.root) = LeftNested(o, p, q)
    /\ pc = "parsed" /\ input = Str(Chain(Digits123, "+", "*")) =>
          result.err = NoError /\ result.value = IntValue(7)

\* `1 + 2 * 3` parsed and evaluated
C3_Witness ==
    /\ pc = "parsed"
    /\ input = Str(Chain(Digits123, "+", "*"))
    /\ Tree(result.root) = RightNested(Digits123, "+", "*")
    /\ result.value = IntValue(7)

\* C4: '-' binds in infix position with lbp 40; `x * y - z` parses as
\* (- (* x y) z) and `x - y - z` as (- (- x y) z).
C4_Original ==
    \A o \in Operands :
        pc = "parsed" =>
          /\ input = Str(Chain(o, "*", "-")) =>
                /\ symbol_table["-"].lbp = 40
                /\ Tree(result.root) = LeftNested(o, "-", "*")
          /\ input = Str(Chain(o, "-", "-")) =>
                /\ symbol_table["-"].lbp = 40
                /\ Tree(result.root) = LeftNested(o, "-", "-")

\* C5: for every source parse() accepts, parse(root.source) is accepted too
\* and gives a tree of the same symbols, values and children (a second
\* parse that got as far as an evaluation this model leaves undecided is
\* not held against the claim).
C5_Original ==
    [][pc = "parsed" /\ pc' = "reparsed" /\ result'.err.msg # "evaluation error" =>
          result'.err = NoError /\ Tree(result'.root) = Tree(result.root)]_vars

Lexical(m) == m.g \in {"literal", "symbol", "name", "unknown"}

\* C6: every non-whitespace character of the source lies inside exactly one
\* match classified literal, symbol, name or unknown; advance() passes over
\* no such match (each one becomes next_token in its turn); and a match of
\* the unknown group gives an (unknown) token and makes advance() fail with
\* 'unknown symbol'.
C6_NothingSkipped ==
    pc \in {"scanning", "stopped"} =>
      LET all == FindIter(XPathTokenizer, source, 1)
          consumed == Len(all) - Len(tokens)
      IN  /\ \A i \in 1..Len(source) :
                source[i] \notin Spaces =>
                  Cardinality({k \in 1..Len(all) :
                                  /\ Lexical(all[k])
                                  /\ all[k].start < i
                                  /\ i <= all[k].end}) = 1
          /\ tokens = SubSeq(all, consumed + 1, Len(all))
          /\ \A k \in 1..consumed :
                Lexical(all[k]) =>
                  \/ /\ next_token.symbol # "(end)"
                     /\ next_token.span = <<all[k].start, all[k].end>>
                  \/ /\ token # NoToken
                     /\ all[k].end <= token.span[2]
          /\ match.g = "unknown" =>
                /\ pc = "stopped"
                /\ next_token.symbol = "(unknown)"
                /\ result.err = Error("unknown symbol %r", StrValue(match.text))

\* advance() met an unknown character after it had read a token
C6_Witness ==
    /\ pc = "stopped"
    /\ match.g = "unknown"
    /\ token # NoToken
    /\ result.err.msg = "unknown symbol %r"

\* what a source is made of
AllSpace(arg) == arg.type = "str" /\ \A i \in 1..Len(arg.chars) : arg.chars[i] \in Spaces
TokensOf(chars) == SelectSeq(FindIter(XPathTokenizer, chars, 1), Lexical)
IsPrefix(s, t) == Len(s) <= Len(t) /\ SubSeq(t, 1, Len(s)) = s
Accepts(chars) == ~Failed(Parse(Instance, Str(chars)).parser)

\* an operand, a closing symbol, or both
Completions == {<<"1">>, <<"a">>, <<")">>, <<"]">>, <<"1", ")">>, <<"1", "]">>}

\* the source has a token and stops where an operand or a closing symbol is
\* still required: it is rejected, and with one of the completions after
\* its tokens it is accepted
EndsEarly(arg) ==
    /\ arg.type = "str"
    /\ TokensOf(arg.chars) # <<>>
    /\ ~Accepts(arg.chars)
    /\ \E more \in Completions :
          /\ IsPrefix(TokensOf(arg.chars), TokensOf(arg.chars \o more))
          /\ Accepts(arg.chars \o more)

\* C7: an empty or all-whitespace source fails with 'source is empty'; a
\* source with a token that stops where an operand or closing symbol is
\* still required fails with 'unexpected end of source'.
C7_Original ==
    Called =>
      /\ AllSpace(input) => result.err.msg = "source is empty"
      /\ EndsEarly(input) => result.err.msg = "unexpected end of source"

\* C7 as the code has it: the handlers that look at the lookahead themselves
\* report their own message when the source stops in front of them
C7_EndOfSource ==
    Called =>
      /\ AllSpace(input) => result.err.msg = "source is empty"
      /\ \/ result.err.msg \in {"unexpected end of source",
                                   "invalid attribute specification",
                                   "%s has no arguments"}
         \/ ~EndsEarly(input)

\* `(1`: the source stops where the closing parenthesis is required
C7_Witness ==
    /\ pc = "parsed"
    /\ input = Str(<<"(", "1">>)
    /\ EndsEarly(input)
    /\ result.err.msg = "unexpected end of source"

\* the arities the declaration nargs = lo..hi admits (lo = hi = -1 for None)
Declared(f, n) ==
    LET nud == XPathTable[f].nud
    IN  IF nud.lo = -1 THEN n >= 1 ELSE nud.lo <= n /\ n <= nud.hi

\* every function token of the tree has an arity its declaration admits
RECURSIVE ArityDeclared(_)
ArityDeclared(self) ==
    /\ self.symbol \in FunctionSymbols => Declared(self.symbol, Len(self.items))
    /\ \A i \in 1..Len(self.items) : ArityDeclared(self.items[i])

\* C11: after a successful nud of a function token its arity is one the
\* declared nargs admits (None: at least 1; 0: none; n: exactly n; (min, max):
\* min to max), and every call whose number of comma-separated arguments is
\* outside the declared range makes parse fail.
C11_Original ==
    pc = "parsed" =>
      /\ result.root # NoToken => ArityDeclared(result.root)
      /\ \A f \in FunctionSymbols, args \in ArgLists :
            input = Str(CallSource(f, args)) /\ ~Declared(f, Len(args)) =>
               result.root = NoToken /\ result.err # NoError

\* parse() returned a tree (the static evaluation may still have raised)
Accepted == pc = "parsed" /\ result.root # NoToken
\* parse() raised err
Rejected(err) == pc = "parsed" /\ result.root = NoToken /\ result.err = err

\* C12 as stated: `prefix:local` with a prefix the namespace map does not
\* hold fails with XPST0081 (prefix not declared); with a declared prefix
\* the ':' token has the children (prefix, local), the URI of the prefix is
\* bound into the right operand and the value is 'prefix:local'.
C12_Original ==
    \A q \in QNameCases :
        pc = "parsed" /\ input = Str(QNameSource(q)) =>
          IF q[1] \notin DOMAIN Namespaces
          THEN Rejected(Error("prefix %r is not declared", StrValue(q[1])))
          ELSE Accepted =>
                 /\ result.root.symbol = ":"
                 /\ Len(result.root.items) = 2
                 /\ result.root.items[1].value = StrValue(q[1])
                 /\ result.root.items[2].namespace = Namespaces[q[1]]
                 /\ result.root.value = StrValue(q[1] \o <<":">> \o q[4])

\* is_spaced() sees the character next to the colon
SeenSpaced(q) == (q[2] \o q[3]) # <<>> /\ (q[2] \o q[3])[1] \in {" ", "\t", "\n"}
\* the right operand is a name or '*' (a keyword operator is read as a name)
LocalName(q) == q[4] \in {<<"a">>, <<"*">>, <<"o", "r">>}

\* every ':' token of the tree has a (name) left child that is a declared
\* prefix, a right child bound to the URI of the prefix, and the value
\* '{}:{}'.format(left.value, right.value)
RECURSIVE QNamesBound(_)
QNamesBound(self) ==
    /\ self.symbol = ":" =>
          /\ Len(self.items) = 2
          /\ self.items[1].symbol = "(name)"
          /\ self.items[1].value.s \in DOMAIN Namespaces
          /\ self.items[2].namespace = Namespaces[self.items[1].value.s]
          /\ self.value = StrValue(Format(self.items[1].value) \o <<":">>
                                   \o Format(self.items[2].value))
    /\ \A i \in 1..Len(self.items) : QNamesBound(self.items[i])

\* C12 amended: the ':' led checks its lookahead and the adjacency first;
\* when the lookahead is a name, '*' or a function and no blank, tab or
\* newline is next to the colon, an undeclared prefix fails with XPST0081;
\* an undeclared prefix never parses.  In every tree parse() returns a ':'
\* token has exactly two children, its left child is a declared prefix, the
\* URI of the prefix is bound into its right child and its value is
\* '{}:{}'.format of the two children's values, which is 'prefix:local'
\* when the right child is a name or '*'.
C12_PrefixResolved ==
    /\ Accepted => QNamesBound(result.root)
    /\ \A q \in QNameCases :
          pc = "parsed" /\ input = Str(QNameSource(q)) =>
            /\ q[1] \notin DOMAIN Namespaces =>
                  /\ result.root = NoToken /\ result.err # NoError
                  /\ (q[4] # <<"1">> /\ ~SeenSpaced(q)) =>
                        result.err = Error("prefix %r is not declared", StrValue(q[1]))
            /\ (Accepted /\ LocalName(q)) =>
                  /\ result.root.symbol = ":"
                  /\ result.root.items[1].value = StrValue(q[1])
                  /\ result.root.items[2].namespace = Namespaces[q[1]]
                  /\ result.root.value = StrValue(q[1] \o <<":">> \o q[4])

\* `xml:a` parsed: the URI of xml is bound into the name a
C12_Witness ==
    /\ pc = "parsed"
    /\ input = Str(<<"x", "m", "l", ":", "a">>)
    /\ result.root.symbol = ":"
    /\ result.root.value = StrValue(<<"x", "m", "l", ":", "a">>)
    /\ result.root.items[2].namespace = XML_NAMESPACE

\* C13: a QName is accepted only when prefix, ':' and local name are
\* adjacent: with a whitespace character (blank, tab, newline, carriage
\* return or form feed) immediately before or after the ':' the source is
\* rejected.
C13_Original ==
    \A q \in QNameCases :
        (pc = "parsed" /\ input = Str(QNameSource(q)) /\ (q[2] \o q[3]) # <<>>) =>
            result.root = NoToken /\ result.err # NoError

\* the token advance() makes of the first token of a text
FirstToken(chars) ==
    Advance([Instance EXCEPT !.source = chars,
                             !.tokens = FindIter(XPathTokenizer, chars, 1)],
            {}).next_token

\* the token may follow a path operator as the claim has it
StepToken(tok) == tok.label \in PATH_STEP_LABELS \/ tok.symbol \in PATH_STEP_SYMBOLS
\* a keyword operator, which expected_name() reads as a name
KeywordToken(tok) == tok.label = "operator" /\ IsNameLike(tok.symbol)

\* C14 as stated: in led position '/' and '//' fail with a syntax error
\* unless the following token has label 'axis' or 'kind test' or is one of
\* the PATH_STEP_SYMBOLS; every other following token, the keyword operators
\* and, or, div, mod and function tokens included, makes parse fail.
C14_Original ==
    \A c \in PathCases :
        (pc = "parsed" /\ input = Str(PathSource(c)) /\ c[1] # <<>>
            /\ ~StepToken(FirstToken(c[3]))) =>
                result.root = NoToken /\ result.err # NoError

\* C14 amended: a keyword operator (and, or, div, mod) after '/' or '//' is
\* read as a (name) token and parsed as a step; every following token that
\* is neither that nor a step token makes parse fail with the syntax error
\* of that token, and a step token is taken as the right operand.
C14_StepRequired ==
    \A c \in PathCases :
        (pc = "parsed" /\ input = Str(PathSource(c)) /\ c[1] # <<>>) =>
            LET next == FirstToken(c[3])
            IN  /\ (~StepToken(next) /\ ~KeywordToken(next)) =>
                      Rejected(WrongSyntax(next, next, ""))
                /\ KeywordToken(next) =>
                      /\ Accepted
                      /\ Tree(result.root) =
                            Node(c[2], OperandTree(c[1]), OperandTree(c[3]))
                /\ (StepToken(next) /\ next.symbol # "{") =>
                      /\ Accepted
                      /\ result.root.symbol = c[2]
                      /\ Len(result.root.items) = 2
                      /\ result.root.items[2].symbol = next.symbol

\* `a/ name()`: a function token after '/' is turned down
C14_Witness ==
    /\ pc = "parsed"
    /\ input = Str(PathSource(<<<<"a">>, "/", SPELL["name"] \o <<"(", ")">>>>))
    /\ result.root = NoToken
    /\ result.err = Error("unexpected %s", StrValue(SPELL["name"]))

\* the nud of the current token is called and the lookahead is no step
NudWithoutStep(symbol) ==
    /\ pc = "scanning" /\ pc' = "nud"
    /\ token.symbol = symbol
    /\ ~StepToken(next_token) /\ ~KeywordToken(next_token)

\* C15: the nud of '/' in front of a token that is no step returns the '/'
\* token without children and leaves tokens, match, token and next_token as
\* they were, so parse('/') gives a childless '/' root; the nud of '//' in
\* front of such a token fails with the syntax error of that token, so
\* parse('//') fails.
C15_LoneRoot ==
    [][ /\ NudWithoutStep("/") =>
              /\ result'.err = NoError
              /\ result'.root = token
              /\ result'.root.items = <<>>
              /\ UNCHANGED <<tokens, match, token, next_token>>
        /\ NudWithoutStep("//") =>
              /\ result'.err = WrongSyntax(next_token, token, "")
              /\ result'.root = NoToken
        /\ (pc' = "parsed" /\ input' = Str(<<"/">>)) =>
              /\ result'.err = NoError
              /\ Tree(result'.root) = <<"/", StrValue(<<"/">>), <<>>>>
        /\ (pc' = "parsed" /\ input' = Str(<<"/", "/">>)) =>
              /\ result'.root = NoToken
              /\ result'.err = Error("unexpected end of source", None) ]_vars

\* the nud of '/' was called in front of '+' and gave the childless token
C15_Witness ==
    /\ pc = "nud"
    /\ token.symbol = "/"
    /\ next_token.symbol = "+"
    /\ result.err = NoError
    /\ result.root.symbol = "/" /\ result.root.items = <<>>

\* the list the predicate of the root yields for the i-th item of the step
PredicateOf(step, i) ==
    Cut(Select(result.root.items[2], Moved(ctx, step[i], i, Len(step))))

\* the predicate yields exactly one value, numeric, for the i-th item
OneNumber(step, i) ==
    Len(PredicateOf(step, i)) = 1 /\ IsNumeric(PredicateOf(step, i)[1])

\* the i-th item of the step is to be yielded
Included(step, i) ==
    IF OneNumber(step, i)
    THEN NumericEquals(i, PredicateOf(step, i)[1].value)
    ELSE BooleanValueOf(PredicateOf(step, i)) = "True"

\* the items of the step that are to be yielded, in the order of the step
RECURSIVE IncludedFrom(_, _)
IncludedFrom(step, i) ==
    IF i > Len(step) THEN <<>>
    ELSE (IF Included(step, i) THEN <<step[i]>> ELSE <<>>) \o IncludedFrom(step, i + 1)

RECURSIVE ChainOperands(_)
ChainOperands(self) ==
    IF self.symbol = "|"
    THEN ChainOperands(self.items[1]) \cup ChainOperands(self.items[2])
    ELSE IF self.symbol = "(" /\ self.items[1].symbol \in {"|", "("}
    THEN ChainOperands(self.items[1])
    ELSE {self}

\* the nodes the operands of the chain select on the context
ChainNodes(self, context) ==
    UNION {{Select(e, context)[i] : i \in 1..Len(Select(e, context))} :
             e \in ChainOperands(self)}

\* every union of the tree whose results are final (it is not the left
\* operand of another union) cuts and sorts
RECURSIVE FinalUnionsSort(_, _)
FinalUnionsSort(self, final) ==
    /\ (self.symbol = "|" /\ final) => self.cut_and_sort = "True"
    /\ \A i \in 1..Len(self.items) :
          FinalUnionsSort(self.items[i], ~(self.symbol = "|" /\ i = 1))

RightNodes(self, context, lefts) ==
    UNION {{n \in {Select(self.items[2], Moved(context, lefts[i], i, Len(lefts)))[k] :
                     k \in 1..Len(Select(self.items[2],
                                         Moved(context, lefts[i], i, Len(lefts))))} :
               is_xpath_node(n)} : i \in 1..Len(lefts)}

\* C18: `left/right` yields no node twice (a typed tuple counts as the node
\* it wraps) and never merges two distinct nodes, even when they compare
\* equal: every node the right operand yields on some item of the left
\* operand is yielded.
C18_Original ==
    (/\ pc = "selected"
     /\ result.root.symbol = "/"
     /\ Len(result.root.items) = 2
     /\ ~Raised(selected)) =>
        /\ \A i \in 1..Len(selected), j \in 1..Len(selected) :
              (i < j /\ is_xpath_node(selected[i]))
                  => Wrapped(selected[i]) # Wrapped(selected[j])
        /\ \A n \in RightNodes(result.root, ctx, Cut(Select(result.root.items[1], ctx))) :
              \E i \in 1..Len(selected) : Wrapped(selected[i]) = Wrapped(n)

\* C19 as stated: on the XPath 1.0 parser built with strict=True, `a div 0`
\* with an integer a raises FOAR0001.
C19_Original ==
    \A c \in ArithCases :
        (pc = "parsed" /\ input = Str(ArithSource(c)) /\ c[2] = "div" /\ c[3] = 0) =>
            result.err = Error("FOAR0001", None)

\* C19 amended: the XPath 1.0 parser is always in compatibility mode, and
\* there `a div 0` with an integer a raises nothing: it gives NaN for a = 0,
\* +inf for a > 0 and -inf for a < 0.
C19_CompatibilityDiv ==
    \A c \in ArithCases :
        (pc = "parsed" /\ input = Str(ArithSource(c)) /\ c[2] = "div" /\ c[3] = 0) =>
            /\ result.err = NoError
            /\ result.value =
                  Value("float", IF c[1] = 0 THEN <<"n", "a", "n">>
                                 ELSE IF c[1] > 0 THEN <<"i", "n", "f">>
                                 ELSE <<"-", "i", "n", "f">>, 0)

\* `1 div 0` parsed and evaluated
C19_Witness ==
    /\ pc = "parsed"
    /\ input = Str(ArithSource(<<1, "div", 0>>))
    /\ Tree(result.root) = Node("div", OperandTree(<<"1">>), OperandTree(<<"0">>))
    /\ result.value = Value("float", <<"i", "n", "f">>, 0)

\* the remainder of the division that truncates towards zero
TruncMod(a, b) ==
    a - b * ((IF (a < 0) = (b < 0) THEN 1 ELSE -1) * (Abs(a) \div Abs(b)))

\* C20: for integers a and b # 0, `a mod b` is a - b*trunc(a/b), zero or of
\* the sign of a (5 mod -3 = 2, -5 mod 3 = -2, -5 mod -3 = -2); `a mod 0`
\* raises FOAR0001.
C20_Original ==
    \A c \in ArithCases :
        (pc = "parsed" /\ input = Str(ArithSource(c)) /\ c[2] = "mod") =>
            IF c[3] = 0 THEN result.err = Error("FOAR0001", None)
            ELSE /\ result.err = NoError
                 /\ result.value = IntValue(TruncMod(c[1], c[3]))

\* the token at a path, and the paths of all the tokens of a tree
RECURSIVE Sub(_, _)
Sub(self, path) == IF path = <<>> THEN self ELSE Sub(self.items[Head(path)], Tail(path))
RECURSIVE Paths(_, _)
Paths(self, path) ==
    {path} \cup UNION {Paths(self.items[k], path \o <<k>>) : k \in 1..Len(self.items)}

\* p is the path of a proper ancestor of the token at q
Above(p, q) == Len(p) < Len(q) /\ SubSeq(q, 1, Len(p)) = p
\* the order the claim gives to two tokens of a tree: a token comes before
\* its descendants, except that a token of two or more children comes after
\* the subtree of its first child; two subtrees of one token come in the
\* order of the children
Earlier(root, p, q) ==
    IF Above(p, q) THEN Len(Sub(root, p).items) < 2 \/ q[Len(p) + 1] # 1
    ELSE IF Above(q, p) THEN Len(Sub(root, q).items) >= 2 /\ p[Len(q) + 1] = 1
    ELSE LET d == CHOOSE k \in 1..Len(p) : p[k] # q[k] /\ SubSeq(p, 1, k - 1) = SubSeq(q, 1, k - 1)
         IN  p[d] < q[d]

\* C24: iter() without a filter yields every token of the subtree exactly
\* once, a token of no child or of one child before its subtree, a token of
\* two or more children after the subtree of its first child and before the
\* others; with a filter it yields the same sequence restricted to the
\* tokens whose symbol is in the filter.
C24_IterOrder ==
    pc = "iterated" =>
        LET all == TokenIter(result.root, {}, <<>>)
            symbols == fn_call.args[1]
        IN  /\ returned.raised = ""
            /\ {all[i] : i \in 1..Len(all)} = Paths(result.root, <<>>)
            /\ \A i, j \in 1..Len(all) : i < j => Earlier(result.root, all[i], all[j])
            /\ returned.value =
                 IF symbols = {} THEN all
                 ELSE SelectSeq(all, LAMBDA p : Sub(result.root, p).symbol \in symbols)

\* a filtered iteration of a tree that has a token of two children under
\* a token of two children, and a token the filter leaves out
C24_Witness ==
    /\ pc = "iterated"
    /\ fn_call.args[1] = {"(integer)"}
    /\ Len(returned.value) >= 3
    /\ \E p \in Paths(result.root, <<>>) :
         /\ p # <<>>
         /\ Len(Sub(result.root, p).items) = 2
         /\ Len(Sub(result.root, <<>>).items) = 2

\* the matches of the source that lie between two places of it
Between(lo, hi) ==
    SelectSeq(FindIter(XPathTokenizer, source, 1), LAMBDA m : lo <= m.start /\ m.end <= hi)

\* C25: advance_until(stop_symbols) fails when no stop symbol is given or
\* the lookahead is (end).  Otherwise the lookahead becomes the current
\* token and the matches are consumed up to the first match of the symbol
\* group that is a stop symbol, which becomes the lookahead; the string
\* returned is the text of the source between the old lookahead and that
\* stop symbol, whitespace included.  When no stop symbol follows, the rest
\* of the source is returned, the lookahead is (end) and nothing is raised.
C25_AdvanceUntil ==
    pc = "until" =>
        LET stop_symbols == fn_call.args[1]
            stopped == next_token.symbol # "(end)"
            hi == IF stopped THEN match.start ELSE Len(source)
        IN  IF result.err # NoError
            THEN \/ stop_symbols = {}
                 \/ next_token = NoToken
                 \/ next_token.symbol = "(end)"
            ELSE /\ stop_symbols # {}
                 /\ token # NoToken /\ token.symbol # "(end)"
                 /\ returned = Returns(StrValue(SubSeq(source, token.span[2] + 1, hi)))
                 /\ \A i \in 1..Len(Between(token.span[2], hi)) :
                        ~IsStop(Between(token.span[2], hi)[i], stop_symbols)
                 /\ stopped => /\ next_token.symbol \in stop_symbols
                               /\ next_token.span = <<match.start, match.end>>
                               /\ match.g = "symbol"
                 /\ ~stopped => tokens = <<>>

\* '{' is the lookahead and advance_until('}') returns the two spaces and
\* the literal '}' before the closing brace
C25_Witness ==
    /\ pc = "until"
    /\ result.err = NoError
    /\ token.symbol = "{"
    /\ next_token.symbol = "}"
    /\ returned = Returns(StrValue(<<" ", " ", "'", "}", "'">>))

\* the instance as Parser.__init__ leaves it
Fresh ==
    [symbol_table |-> symbol_table, source |-> <<>>, tokens |-> <<>>,
     match |-> NoMatch, token |-> NoToken, next_token |-> NoToken,
     err |-> NoError, returns |-> {}]

\* C26: what parse(s) returns or raises on an instance that was parsed with
\* before, whether the earlier calls returned or raised (in advance(), in a
\* nud or a led, or on an argument that is no str), is what it returns or
\* raises on a freshly constructed instance.
C26_FreshOutcome ==
    pc = "again" =>
        \E out \in XPathParse(Fresh, input) :
            result = Result(out.parser.err, out.token, out.value, out.parser.returns)

\* a call with an argument that is no str, on an instance whose earlier
\* call raised in advance() on the unknown character of the source it left
C26_Witness ==
    /\ pc = "again"
    /\ input = NotStr("int")
    /\ source = <<"1", "#">>
    /\ result.err.msg = "invalid source type, {}"

\* C27: the comparison operators do not chain: for any two of them the
\* source `a op1 b op2 c` is rejected with a syntax error, and the source
\* `(a op1 b) op2 c` is accepted with op2 at the root.
C27_NoChain ==
    \A o \in Operands, p \in OPERATORS_MAP, q \in OPERATORS_MAP :
        /\ (pc = "parsed" /\ input = Str(Chain(o, p, q))) =>
              /\ result.root = NoToken
              /\ result.err = Error("unexpected %s", StrValue(SPELL[q]))
        /\ (pc = "parsed" /\ input = Str(ParenChain(o, p, q))) =>
              /\ result.err = NoError
              /\ result.root.symbol = q
              /\ Len(result.root.items) = 2
              /\ result.root.items[1].symbol = "("
              /\ result.root.items[1].items[1].symbol = p
              /\ Len(result.root.items[1].items[1].items) = 2

C27_Witness ==
    /\ pc = "parsed"
    /\ input = Str(ParenChain(<< <<"a">>, <<"b">>, <<"c">> >>, "<", ">="))
    /\ result.err = NoError
    /\ result.root.symbol = ">="

\* C28: XPath1Parser.parse evaluates the root with no context before it
\* returns.  It returns the root iff the source is syntactically valid and
\* the static evaluation returns or raises a missing-context error, which is
\* swallowed; any other error of the static evaluation is raised by parse
\* itself; in every case the cursor has been cleared.  (Where the model
\* leaves the outcome of an evaluation open, either may happen.)
C28_StaticEvaluation ==
    pc = "parsed" =>
        LET parsed == Parse(Fresh, input)
            static == Evaluate(parsed.token)
            returned_root == result.err = NoError /\ result.root = parsed.token
        IN  /\ tokens = <<>> /\ match = NoMatch
            /\ token = NoToken /\ next_token = NoToken
            /\ Failed(parsed.parser) =>
                 result.err = parsed.parser.err /\ result.root = NoToken
            /\ (~Failed(parsed.parser) /\ static.raised \in {"", "MissingContextError"})
                 => returned_root
            /\ (~Failed(parsed.parser)
                /\ static.raised \notin {"", "MissingContextError", "?"})
                 => result.err = Error(static.raised, None)
            /\ returned_root =>
                 ~Failed(parsed.parser)
                 /\ static.raised \in {"", "MissingContextError", "?"}

\* `5 mod 0` is syntactically valid and parse raises the FOAR0001 of the
\* static evaluation, the cursor cleared
C28_Witness ==
    /\ pc = "parsed"
    /\ input = Str(<<"5", " ", "m", "o", "d", " ", "0">>)
    /\ ~Failed(Parse(Fresh, input).parser)
    /\ result.err = Error("FOAR0001", None)
    /\ next_token = NoToken /\ tokens = <<>>

\* C29: in a function call the commas only separate arguments: for every
\* function registered with an integer or a (min, max) nargs, an argument
\* list that begins with ',' is rejected with a parse error, and for every
\* accepted argument list that is not empty the function token has as many
\* children as the list has commas, plus one.
C29_Original ==
    \A f \in FunctionSymbols, args \in ArgLists :
        (/\ pc = "parsed" /\ input = Str(CallSource(f, args))
         /\ XPathTable[f].nud.lo # -1 /\ args # <<>>) =>
            /\ args[1] = "" => result.root = NoToken /\ result.err # NoError
            /\ result.root # NoToken => Len(result.root.items) = Len(args)

-----------------------------------------------------------------------------
(* Claims about the registry, checked under RegSpec                        *)

Max(a, b) == IF a >= b THEN a ELSE b

\* any whitespace character, not only the blank
HasWhitespace(symbol) == \E i \in 1..Len(SPELL[symbol]) : SPELL[symbol][i] \in Spaces

\* the call reg_last' describes created no entry: the symbol had none before
RegisteredAbsent ==
    /\ reg_last'.op = "register"
    /\ reg_last'.symbol \notin DOMAIN symbol_table

\* C8 as stated: every key of symbol_table is in SYMBOLS after every registry
\* call, and registering a symbol that has no entry and is not in SYMBOLS
\* fails with the unknown-symbol error (NameError) and leaves the table as it
\* was.
C8_Original ==
    [][ /\ DOMAIN symbol_table' \subseteq RegAlphabet
        /\ (RegisteredAbsent /\ reg_last'.symbol \notin RegAlphabet)
              => /\ reg_last'.err = "NameError"
                 /\ symbol_table' = symbol_table ]_vars

\* C8 amended: every key of symbol_table is in SYMBOLS after every registry
\* call, and registering a symbol that has no entry and is not in SYMBOLS
\* fails and leaves the table as it was; the error is the invalid-symbol
\* error (ValueError) when the symbol contains a blank and the unknown-symbol
\* error (NameError) otherwise.
C8_KeysInAlphabet ==
    [][ /\ DOMAIN symbol_table' \subseteq RegAlphabet
        /\ (RegisteredAbsent /\ reg_last'.symbol \notin RegAlphabet)
              => /\ reg_last'.err =
                       (IF HasBlank(reg_last'.symbol) THEN "ValueError" ELSE "NameError")
                 /\ symbol_table' = symbol_table ]_vars

\* a registered table, and a register call for a symbol outside SYMBOLS that
\* was turned down with the unknown-symbol error
C8_Witness ==
    /\ reg_last.op = "register" /\ reg_last.symbol = "zz"
    /\ reg_last.err = "NameError"
    /\ "+" \in DOMAIN symbol_table

\* C9 as stated: register fails with the invalid-symbol error (ValueError) for
\* every symbol that contains a whitespace character (blank, tab or newline),
\* in the alphabet or not, and never creates a token class for it.
C9_Original ==
    /\ (reg_last.op = "register" /\ HasWhitespace(reg_last.symbol))
          => reg_last.err = "ValueError"
    /\ \A s \in DOMAIN symbol_table : ~HasWhitespace(s)

\* C10: a register call on an already registered symbol leaves lbp at the
\* maximum of its old value and the value supplied, likewise rbp; it
\* overwrites the callable attributes supplied and keeps every other
\* attribute (label, pattern, ...) as it was.
C10_UpdateMonotonic ==
    [][ (reg_last'.op = "register" /\ reg_last'.symbol \in DOMAIN symbol_table
            /\ reg_last'.err = "")
        => LET kwargs == KwOptions[reg_last'.kw]
               old == symbol_table[reg_last'.symbol]
               new == symbol_table'[reg_last'.symbol]
           IN  /\ new.lbp = (IF "lbp" \in DOMAIN kwargs
                             THEN Max(old.lbp, kwargs.lbp) ELSE old.lbp)
               /\ new.rbp = (IF "rbp" \in DOMAIN kwargs
                             THEN Max(old.rbp, kwargs.rbp) ELSE old.rbp)
               /\ new.lbp >= old.lbp /\ new.rbp >= old.rbp
               /\ \A a \in KindAttrs \ {"lbp", "rbp"} :
                     new[a] = (IF a \in DOMAIN kwargs /\ IsCallable(a)
                               THEN kwargs[a] ELSE old[a]) ]_vars

\* "+" was created with lbp = rbp = 2 and label "prefix operator"; a later
\* register call supplied lbp = rbp = 1, label "operator" and a led
C10_Witness ==
    /\ reg_last.op = "register" /\ reg_last.symbol = "+" /\ reg_last.kw = 1
    /\ reg_last.err = ""
    /\ symbol_table["+"].lbp = 2 /\ symbol_table["+"].rbp = 2
    /\ symbol_table["+"].label = "prefix operator"
    /\ symbol_table["+"].led = KwOptions[1].led

-----------------------------------------------------------------------------
(* Function specification: one call of a string function or of lang() is   *)
(* drawn and its evaluate method applied to the arguments.                 *)

MaxStr == 3

RECURSIVE StringsOver(_, _)
\* the strings of at most n characters of the alphabet
StringsOver(alphabet, n) ==
    IF n = 0 THEN {<<>>}
    ELSE StringsOver(alphabet, n - 1)
         \cup {<<c>> \o s : c \in alphabet, s \in {t \in StringsOver(alphabet, n - 1) :
                                                   Len(t) = n - 1}}

\* the numbers offered as start and length: the integers and the halves
\* around the positions of a string, NaN, the infinities and a str
Numbers ==
    {IntNum(n) : n \in -1..(MaxStr + 1)}
    \cup {FloatNum(twice) : twice \in -3..(2 * MaxStr + 3)}
    \cup {OtherNum(t) : t \in {"nan", "inf", "-inf", "str"}}

FunCall(f, args) ==
    [f |-> f, args |-> args, context |-> NoContext, has_iter_ancestor |-> FALSE]

StringLengthCalls == {FunCall("string-length", <<s>>) : s \in StringsOver({"a", "b"}, MaxStr)}

SubstringCalls ==
    {FunCall("substring", <<s, start>>) :
        s \in StringsOver({"a", "b"}, MaxStr), start \in Numbers}
    \cup {FunCall("substring", <<s, start, length>>) :
        s \in StringsOver({"a", "b"}, MaxStr), start \in Numbers, length \in Numbers}

TranslateCalls ==
    {FunCall("translate", <<s, from, to>>) :
        s \in StringsOver({"a", "b"}, MaxStr),
        from \in StringsOver({"a", "b"}, MaxStr),
        to \in StringsOver({"x", "a"}, MaxStr)}
    \cup {FunCall("translate", <<<<"b", "a", "r">>, <<"a", "b", "c">>, <<"A", "B">>>>),
          FunCall("translate", <<<<"a">>, <<"a", "a">>, <<"x", "y">>>>),
          FunCall("translate", <<<<"a">>, <<"a", "b", "a">>, <<"x", "y">>>>)}

\* the values of xml:lang offered; <<>> stands for no xml:lang attribute
LangValues ==
    {<<>>, <<"e", "n">>, <<"E", "N", "-", "u", "s">>, <<" ", "e", "n">>,
     <<"z", "h", "-", "H", "a", "n", "t", "-", "T", "W">>, <<"f", "r">>}

\* <r xml:lang=..><m xml:lang=..><x xml:lang=../></m></r>, each xml:lang
\* present or not; the nodes are numbered in document order
LangDocument(langs) ==
    LET m == IF langs[1] = <<>> THEN 2 ELSE 3
        x == IF langs[2] = <<>> THEN m + 1 ELSE m + 2
    IN  <<Element(1, 0, <<"r">>)>>
        \o (IF langs[1] = <<>> THEN <<>> ELSE <<Attribute(2, 1, XML_LANG, langs[1])>>)
        \o <<Element(m, 1, <<"m">>)>>
        \o (IF langs[2] = <<>> THEN <<>> ELSE <<Attribute(m + 1, m, XML_LANG, langs[2])>>)
        \o <<Element(x, m, <<"x">>)>>
        \o (IF langs[3] = <<>> THEN <<>> ELSE <<Attribute(x + 1, x, XML_LANG, langs[3])>>)

\* the contexts on a document whose item is one of its elements
ElementContexts(nodes) ==
    {Context(nodes, FALSE, nodes[i]) : i \in {k \in 1..Len(nodes) : nodes[k].kind = "element"}}

LangCodes == {<<"e", "n">>, <<"z", "h">>}

LangCalls ==
    {[f |-> "lang", args |-> <<code>>, context |-> context, has_iter_ancestor |-> has] :
        code \in LangCodes, has \in BOOLEAN,
        context \in UNION {ElementContexts(LangDocument(langs)) :
                              langs \in LangValues \X LangValues \X LangValues}}
    \cup {[f |-> "lang", args |-> <<code>>, context |-> context, has_iter_ancestor |-> TRUE] :
        code \in LangCodes,
        context \in {NoContext,
                     Context(LangDocument(<<<<"e", "n">>, <<>>, <<>>>>), FALSE,
                             Attribute(2, 1, XML_LANG, <<"e", "n">>))}}

FunCalls == StringLengthCalls \cup SubstringCalls \cup TranslateCalls \cup LangCalls

FunInit ==
    /\ symbol_table = [s \in {} |-> TokenDefaults]
    /\ reg_last = RegCall("none", "", "", 0, "")
    /\ reg_calls = 0
    /\ input = Str(<<>>) /\ pc = "idle" /\ source = <<>> /\ tokens = <<>>
    /\ match = NoMatch /\ token = NoToken /\ next_token = NoToken
    /\ result = NoResult
    /\ ctx = NoContext /\ selected = NotSelected
    /\ fn_call \in FunCalls
    /\ returned = NotReturned

\* string-length(s)
DoStringLength ==
    /\ returned = NotReturned
    /\ fn_call.f = "string-length"
    /\ returned' = StringLength(fn_call.args[1])
    /\ UNCHANGED <<regvars, parvars, selvars, fn_call>>

\* substring(s, start) and substring(s, start, length)
DoSubstring ==
    /\ returned = NotReturned
    /\ fn_call.f = "substring"
    /\ returned' = Substring(fn_call.args)
    /\ UNCHANGED <<regvars, parvars, selvars, fn_call>>

\* translate(s, from, to)
DoTranslate ==
    /\ returned = NotReturned
    /\ fn_call.f = "translate"
    /\ returned' = Translate(fn_call.args[1], fn_call.args[2], fn_call.args[3])
    /\ UNCHANGED <<regvars, parvars, selvars, fn_call>>

\* lang(code) on the context of the call
DoLang ==
    /\ returned = NotReturned
    /\ fn_call.f = "lang"
    /\ returned' = Lang(fn_call.context, fn_call.has_iter_ancestor, fn_call.args[1])
    /\ UNCHANGED <<regvars, parvars, selvars, fn_call>>

FunNext == DoStringLength \/ DoSubstring \/ DoTranslate \/ DoLang

FunSpec == FunInit /\ [][FunNext]_vars

-----------------------------------------------------------------------------
(* Claims about the functions, checked under FunSpec                       *)

\* C21: for every string s, the empty string included,
\* substring(s, 1, string-length(s)) returns s.
C21_SubstringWhole ==
    (fn_call.f = "substring" /\ returned # NotReturned /\ Len(fn_call.args) = 3
     /\ fn_call.args[2] = IntNum(1)
     /\ fn_call.args[3] = IntNum(StringLength(fn_call.args[1]).value.n))
        => returned = Returns(StrValue(fn_call.args[1]))

C21_Witness ==
    /\ fn_call.f = "substring"
    /\ fn_call.args = <<<<"a", "b", "a">>, IntNum(1), IntNum(3)>>
    /\ returned = Returns(StrValue(<<"a", "b", "a">>))

\* the character-by-character mapping of the claims: a character of `from`
\* becomes the character of `to` at the place of its first occurrence in
\* `from`, or nothing when `to` is too short; any other character stays
FirstIndex(from, c) ==
    CHOOSE i \in 1..Len(from) : from[i] = c /\ \A j \in 1..(i - 1) : from[j] # c
RECURSIVE FirstWins(_, _, _)
FirstWins(s, from, to) ==
    IF s = <<>> THEN <<>>
    ELSE (IF Head(s) \notin CharsOf(from) THEN <<Head(s)>>
          ELSE IF FirstIndex(from, Head(s)) <= Len(to)
          THEN <<to[FirstIndex(from, Head(s))]>>
          ELSE <<>>)
         \o FirstWins(Tail(s), from, to)
NoRepeat(from) == \A i, j \in 1..Len(from) : from[i] = from[j] => i = j

\* C22: when `from` has no repeated character, translate(s, from, to) maps s
\* character by character: a character equal to from[i] becomes to[i] when
\* `to` is that long and is deleted otherwise, a character not in `from` is
\* unchanged, and the characters of `to` beyond the length of `from` have no
\* effect.
C22_Translate ==
    (fn_call.f = "translate" /\ returned # NotReturned /\ NoRepeat(fn_call.args[2]))
        => returned = Returns(StrValue(FirstWins(fn_call.args[1], fn_call.args[2],
                                                 fn_call.args[3])))

C22_Witness ==
    /\ fn_call.f = "translate"
    /\ fn_call.args = <<<<"b", "a", "r">>, <<"a", "b", "c">>, <<"A", "B">>>>
    /\ returned = Returns(StrValue(<<"B", "A", "r">>))

\* C30: when a character occurs more than once in `from`, its first
\* occurrence decides: it becomes the character of `to` at that place, or is
\* deleted when `to` is too short, and the later occurrences are ignored.
C30_Original ==
    (fn_call.f = "translate" /\ returned # NotReturned /\ ~NoRepeat(fn_call.args[2]))
        => returned = Returns(StrValue(FirstWins(fn_call.args[1], fn_call.args[2],
                                                 fn_call.args[3])))

\* the elements whose xml:lang is in scope for the item: the item and its
\* ancestors, the nearest first, that have the attribute
InScope(context) ==
    SelectSeq(<<context.item>> \o Ancestors(context, context.item),
              LAMBDA e : HasLang(context, e))
\* what is before the first '-' of the value
Primary(lang) == Split(lang, "-")[1]

\* C23: on an element item, lang(code) returns a boolean for every xml:lang
\* value: true iff the xml:lang of the item, or else of its nearest ancestor
\* that has one, cut at its first '-', equals code without regard to case
\* (also when the value has more than one '-'); false when no xml:lang is in
\* scope.  Stated for contexts that have the method the code iterates the
\* ancestors with, and for values without surrounding spaces.
C23_Original ==
    (/\ fn_call.f = "lang" /\ returned # NotReturned
     /\ fn_call.has_iter_ancestor
     /\ is_etree_element(fn_call.context.item)
     /\ \A e \in {InScope(fn_call.context)[i] : i \in 1..Len(InScope(fn_call.context))} :
            " " \notin CharsOf(LangOf(fn_call.context, e)))
        => returned = Returns(BoolValue(
              /\ InScope(fn_call.context) # <<>>
              /\ Lower(Primary(LangOf(fn_call.context, InScope(fn_call.context)[1])))
                    = Lower(fn_call.args[1])))

=============================================================================
